---- MODULE Spec2Model ----
(***************************************************************************)
(* NAT-PMP transactor of automap (src/automap/src/comm_layer/pmp.rs):      *)
(* the PmpTransactor facade driven by one caller thread, the housekeeping  *)
(* threads it spawns (thread_guts), the command channel between them, the  *)
(* mapping_adder mutex they share and the announcement/transaction sockets *)
(* whose results are the environment's choice.                             *)
(***************************************************************************)
EXTENDS Integers, Sequences, FiniteSets, TLC

----------------------------------------------------------------------------
(* Bounds of the exploration *)

\* housekeeping threads one facade may spawn during a run
MaxWorkers == 2
\* commands that may wait in one housekeeping channel
MaxQueue == 2
\* requested lifetimes are 0..MaxLifetime seconds
MaxLifetime == 1
\* lifetimes a router may grant are 0..MaxGranted seconds
MaxGranted == 3
\* a thread's time since last_remapped is followed for MaxTicks clock quanta
MaxTicks == 2

WorkerIds == 1..MaxWorkers
Lifetimes == 0..MaxLifetime
GrantedLifetimes == 0..MaxGranted
HolePorts == {1234, 7777}
\* arguments a caller gives to SetRemapIntervalMs
RemapMs == {500}
RouterIp == "1.2.3.4"
SourceIps == {"1.2.3.4", "7.7.7.7"}
PublicIps == {"72.73.74.75"}

----------------------------------------------------------------------------
(* Data *)

NoConfig == [tag |-> "None", hole_port |-> 0, lifetime |-> 0]

ChangeHandlerConfig(hole_port, lifetime) ==
  [tag |-> "Some", hole_port |-> hole_port, lifetime |-> lifetime]

Stop == [cmd |-> "Stop", ms |-> 0]

SetRemapIntervalMs(n) == [cmd |-> "SetRemapIntervalMs", ms |-> n]

Commands == {Stop} \cup {SetRemapIntervalMs(n) : n \in RemapMs}

ResultCodes == {"Success", "OutOfResources", "UnsupportedOpcode"}

is_permanent(rc) == rc = "UnsupportedOpcode"

Opcodes == {"Get", "MapTcp", "MapUdp", "Other(127)"}

\* A parsed PmpPacket.  The codec gives a Response a result code and a
\* Request none; the payload follows the opcode (external ip for Get,
\* lifetime for the Map opcodes).
PmpPacket(direction, opcode, rc, lifetime, ip) ==
  [direction |-> direction, opcode |-> opcode, result_code_opt |-> rc,
   lifetime |-> lifetime, external_ip |-> ip]

Packets ==
  {PmpPacket("Request", op, "None", 0, "None") : op \in Opcodes}
  \cup {PmpPacket("Response", "Get", rc, 0, ip) :
          rc \in ResultCodes, ip \in PublicIps}
  \cup {PmpPacket("Response", "MapTcp", rc, g, "None") :
          rc \in ResultCodes, g \in GrantedLifetimes}
  \cup {PmpPacket("Response", op, "Success", 0, "None") :
          op \in Opcodes \ {"Get", "MapTcp"}}

NoPacket == PmpPacket("None", "None", "None", 0, "None")

\* the length of a complete datagram, by its opcode: 12 bytes with the
\* external address of a Get response, 16 bytes with the ports and the
\* lifetime of a Map packet
Length(pkt) == IF pkt.opcode = "Get" THEN 12 ELSE 16

\* What recv_from can yield on a socket: an io::Error kind, or a datagram
\* (its source, its length class and what the codec makes of its bytes).
Datagram(src, parses, pkt) ==
  [io |-> "Ok", src |-> src, len |-> Length(pkt),
   parses |-> parses, pkt |-> pkt]

\* a datagram cut short: the first len bytes of the encoding of pkt, which
\* the codec cannot parse as they are
Truncated(src, pkt, len) ==
  [io |-> "Ok", src |-> src, len |-> len, parses |-> FALSE, pkt |-> pkt]

\* a datagram without payload: recv_from returns Ok((0, src))
EmptyDatagram(src) ==
  [io |-> "Ok", src |-> src, len |-> 0, parses |-> FALSE, pkt |-> NoPacket]

IoError(kind) ==
  [io |-> kind, src |-> "None", len |-> 0, parses |-> FALSE, pkt |-> NoPacket]

\* nothing was received
NoReception == IoError("None")

IoErrorKinds == {"WouldBlock", "TimedOut", "ConnectionReset"}

Receptions(srcs) ==
  {IoError(k) : k \in IoErrorKinds}
  \cup {EmptyDatagram(s) : s \in srcs}
  \cup {Datagram(s, FALSE, NoPacket) : s \in srcs}
  \cup {Datagram(s, TRUE, p) : s \in srcs, p \in Packets}

\* Result<_, AutomapError> values
Ok(val) == [kind |-> "Ok", detail |-> "", val |-> val]

Err(kind, detail) == [kind |-> kind, detail |-> detail, val |-> 0]

NoResult == [kind |-> "None", detail |-> "", val |-> 0]

\* AutomapChange values handed to the change handler
NoChange == [tag |-> "None", ip |-> "None", err |-> NoResult]

NewIp(ip) == [tag |-> "NewIp", ip |-> ip, err |-> NoResult]

ChangeError(e) == [tag |-> "Error", ip |-> "None", err |-> e]

----------------------------------------------------------------------------
(* Pure parts of the transaction engine and of the mapping operation *)

\* PmpPacket::try_from on the len bytes received: what the codec makes of
\* them, "Ok" or the name of its ParseError
try_from(r) ==
  IF r.len < Length(r.pkt) THEN "ShortBuffer"
  ELSE IF ~r.parses THEN "ParseError"
  ELSE "Ok"

\* PmpTransactor::transact up to and including send_to: the error it returns
\* when the bind or the send fails, NoResult when the request is on the wire.
TransactSend(bind_ok, send_ok) ==
  IF ~bind_ok THEN Err("SocketBindingError", "0.0.0.0:ephemeral")
  ELSE IF ~send_ok THEN Err("SocketSendError", "Unknown")
  ELSE NoResult

\* transact taking a timeout for any other receive error
TransactRecv_TimeoutAsReceiveError(r) ==
  IF r.io # "Ok" THEN Err("SocketReceiveError", "Unknown")
  ELSE IF try_from(r) # "Ok" THEN Err("PacketParseError", try_from(r))
  ELSE NoResult

\* PmpTransactor::transact from recv_from on: the error it returns for the
\* reception r, NoResult when it returns Ok(r.pkt).
TransactRecv(r) ==
  IF r.io \in {"WouldBlock", "TimedOut"}
    THEN Err("ProtocolError", "Timed out after 3 seconds")
  ELSE IF r.io # "Ok" THEN Err("SocketReceiveError", "Unknown")
  ELSE IF try_from(r) # "Ok" THEN Err("PacketParseError", try_from(r))
  ELSE NoResult

\* transact sending its request twice
SocketOps_SendsTwice(bind_ok) ==
  IF ~bind_ok THEN <<"make">>
  ELSE <<"make", "set_read_timeout", "send_to", "send_to">>

\* The calls PmpTransactor::transact makes on the socket factory and on the
\* socket it gets, up to and including send_to ...
SocketOps(bind_ok) ==
  IF ~bind_ok THEN <<"make">>
  ELSE <<"make", "set_read_timeout", "send_to">>

\* ... and after the request went out
ReceiveOps == <<"recv_from">>

ExpectedMapTcp(opcode) ==
  CASE opcode = "Get" -> "Expected MapTcp response; got Get response instead"
    [] opcode = "MapUdp" -> "Expected MapTcp response; got MapUdp response instead"
    [] OTHER -> "Expected MapTcp response; got Other(127) response instead"

\* add_mapping testing the opcode before the direction
MapResponse_OpcodeFirst(r) ==
  LET e == TransactRecv(r)
      response == r.pkt
  IN IF e # NoResult THEN e
     ELSE IF response.opcode # "MapTcp"
       THEN Err("ProtocolError", ExpectedMapTcp(response.opcode))
     ELSE IF response.direction = "Request"
       THEN Err("ProtocolError", "Map response labeled as request")
     ELSE IF response.result_code_opt = "Success"
       THEN Ok(response.lifetime \div 2)
     ELSE IF is_permanent(response.result_code_opt)
       THEN Err("PermanentMappingError", response.result_code_opt)
     ELSE Err("TemporaryMappingError", response.result_code_opt)

\* add_mapping taking every refusal for a temporary one
MapResponse_AllTemporary(r) ==
  LET e == TransactRecv(r)
      response == r.pkt
  IN IF e # NoResult THEN e
     ELSE IF response.direction = "Request"
       THEN Err("ProtocolError", "Map response labeled as request")
     ELSE IF response.opcode # "MapTcp"
       THEN Err("ProtocolError", ExpectedMapTcp(response.opcode))
     ELSE IF response.result_code_opt = "Success"
       THEN Ok(response.lifetime \div 2)
     ELSE Err("TemporaryMappingError", response.result_code_opt)

\* add_mapping returning the granted lifetime itself
MapResponse_ReturnsGranted(r) ==
  LET e == TransactRecv(r)
      response == r.pkt
  IN IF e # NoResult THEN e
     ELSE IF response.direction = "Request"
       THEN Err("ProtocolError", "Map response labeled as request")
     ELSE IF response.opcode # "MapTcp"
       THEN Err("ProtocolError", ExpectedMapTcp(response.opcode))
     ELSE IF response.result_code_opt = "Success"
       THEN Ok(response.lifetime)
     ELSE IF is_permanent(response.result_code_opt)
       THEN Err("PermanentMappingError", response.result_code_opt)
     ELSE Err("TemporaryMappingError", response.result_code_opt)

\* MappingAdderReal::add_mapping after its request went out: the value it
\* returns when the transaction's reception is r.
MapResponse(r) ==
  LET e == TransactRecv(r)
      response == r.pkt
  IN IF e # NoResult THEN e
     ELSE IF response.direction = "Request"
       THEN Err("ProtocolError", "Map response labeled as request")
     ELSE IF response.opcode # "MapTcp"
       THEN Err("ProtocolError", ExpectedMapTcp(response.opcode))
     ELSE IF response.result_code_opt = "Success"
       THEN Ok(response.lifetime \div 2)
     ELSE IF is_permanent(response.result_code_opt)
       THEN Err("PermanentMappingError", response.result_code_opt)
     ELSE Err("TemporaryMappingError", response.result_code_opt)

\* PmpTransactor::remap_port: the lifetime it asks for, from the Duration
\* (milliseconds here) thread_guts builds out of the configured lifetime.
RemapLifetime(requested_lifetime_ms) ==
  LET requested_lifetime_secs == requested_lifetime_ms \div 1000
  IN IF requested_lifetime_secs < 1 THEN 1 ELSE requested_lifetime_secs

\* Duration::from_secs, in milliseconds
from_secs(s) == s * 1000

\* Requests put on the wire
NoRequest ==
  [opcode |-> "None", internal_port |-> 0, external_port |-> 0,
   lifetime |-> 0, external_ip_address_opt |-> "None"]

MapRequest(hole_port, lifetime) ==
  [NoRequest EXCEPT !.opcode = "MapTcp", !.internal_port = hole_port,
                    !.external_port = hole_port, !.lifetime = lifetime]

GetRequest == [NoRequest EXCEPT !.opcode = "Get"]

----------------------------------------------------------------------------
(* State *)

VARIABLES
  facade,                     \* "alive", "dropped", or "panicked" (its caller unwound)
  change_handler_config_opt,  \* PmpTransactor.change_handler_config_opt
  housekeeper_commander_opt,  \* 0 = None, w = Some(sender of thread w's channel)
  caller,                     \* the facade call the caller thread is inside of
  mapping_adder,              \* the Mutex of mapping_adder_arc: holder and poison flag
  threads,                    \* the housekeeping threads spawned so far
  spawned,                    \* how many thread::spawn calls were made
  tx_held,                    \* threads whose returned Sender the client still holds
  ev                          \* what the last step did (call, result, change delivered)

vars ==
  <<facade, change_handler_config_opt, housekeeper_commander_opt, caller,
    mapping_adder, threads, spawned, tx_held, ev>>

CallerId == 0 - 1

\* no socket was asked for
NoSocket == [bind_ok |-> FALSE, send_ok |-> FALSE]

\* RefCell::replace was not called on change_handler_config_opt
Untouched == [tag |-> "Untouched", hole_port |-> 0, lifetime |-> 0]

Unlocked == 0

Idle == [op |-> "idle", hole_port |-> 0, lifetime |-> 0]

Unborn ==
  [pc |-> "unborn", rx |-> <<>>, elapsed |-> 0, remap_interval |-> 0,
   config |-> NoConfig, public_ip |-> "None"]

\* a thread that left thread_guts: its Receiver and locals are gone
Ended(how) == [Unborn EXCEPT !.pc = how]

Running == {"recv", "announcing", "check", "renewing"}

Alive(w) == threads[w].pc \in Running

\* polled: what rx.try_recv() yielded if the step polled the channel
Event(op, w, res, change, req, polled) ==
  [op |-> op, w |-> w, res |-> res, change |-> change, req |-> req,
   polled |-> polled, socket |-> NoSocket, reply |-> NoReception,
   ops |-> <<>>, replaced |-> Untouched, announcement |-> NoReception,
   guards |-> <<>>]

\* a transact that keeps the factories guard until its request is sent
TransactGuards_HeldOverSend(ops) ==
  IF ops = <<>> \/ Head(ops) # "make" THEN ops
  ELSE IF Len(ops) = 1 THEN <<"factories.lock", "make", "factories.drop">>
  ELSE <<"factories.lock">> \o ops \o <<"factories.drop">>

\* The calls on the socket factory and the socket, ops, together with what
\* PmpTransactor::transact does to the factories guard around them: the
\* guard lives in the block that makes the socket.
TransactGuards(ops) ==
  IF ops = <<>> \/ Head(ops) # "make" THEN ops
  ELSE <<"factories.lock", "make", "factories.drop">> \o Tail(ops)

\* the event e of a step that ran a part of PmpTransactor::transact: what
\* the socket factory and the socket did, what recv_from yielded, and the
\* calls made on them, in order
Transacted(e, socket, reply, ops) ==
  [e EXCEPT !.socket = socket, !.reply = reply, !.ops = ops,
            !.guards = TransactGuards(ops)]

\* the event e of a step that, before its transaction, locked the guards
\* named in first and, after it, dropped those named in last
Guarded(e, first, last) == [e EXCEPT !.guards = first \o @ \o last]

\* the event e of a step in which recv_from on the announcement socket
\* returned r
Announced(e, r) == [e EXCEPT !.announcement = r]

\* Sender::send on thread w's channel: queued while the Receiver exists,
\* an Err the callers discard once the thread has ended.
Send(ths, w, cmd) ==
  IF ths[w].pc \in Running THEN [ths EXCEPT ![w].rx = Append(@, cmd)] ELSE ths

Init ==
  /\ facade = "alive"
  /\ change_handler_config_opt = NoConfig
  /\ housekeeper_commander_opt = 0
  /\ caller = Idle
  /\ mapping_adder = [holder |-> Unlocked, poisoned |-> FALSE]
  /\ threads = [w \in WorkerIds |-> Unborn]
  /\ spawned = 0
  /\ tx_held = {}
  /\ ev = Event("new", 0, NoResult, NoChange, NoRequest, "None")

CallerFree == facade = "alive" /\ caller = Idle

----------------------------------------------------------------------------
(* The facade, called by one caller thread *)

\* What add_mapping / delete_mapping return for the mapping operation's result
MappingReturn(op, res) ==
  IF op = "delete_mapping" /\ res.kind = "Ok" THEN Ok(0) ELSE res

\* add_mapping (and delete_mapping, which is add_mapping with lifetime 0) up
\* to the moment the request is on the wire: lock mapping_adder_arc, bind,
\* send.  A poisoned mutex panics the caller; a failed bind or send returns.
MappingCall(op, hole_port, lifetime, bind_ok, send_ok) ==
  /\ CallerFree
  /\ mapping_adder.holder = Unlocked
  /\ IF mapping_adder.poisoned
       THEN /\ facade' = "panicked"
            /\ ev' = Guarded(
                       Event(op, 0, Err("panic", "Housekeeping thread is dead"),
                             NoChange, NoRequest, "None"),
                       <<"mapping_adder.lock">>, <<>>)
            /\ UNCHANGED <<caller, mapping_adder>>
       ELSE LET e == TransactSend(bind_ok, send_ok)
                socket == [bind_ok |-> bind_ok, send_ok |-> send_ok]
                req == MapRequest(hole_port, lifetime)
            IN IF e # NoResult
                 THEN /\ ev' = Guarded(
                                 Transacted(
                                   Event(op, 0, MappingReturn(op, e), NoChange,
                                         req, "None"),
                                   socket, NoReception, SocketOps(bind_ok)),
                                 <<"mapping_adder.lock">>, <<"mapping_adder.drop">>)
                      /\ UNCHANGED <<facade, caller, mapping_adder>>
                 ELSE /\ caller' = [op |-> op, hole_port |-> hole_port,
                                    lifetime |-> lifetime]
                      /\ mapping_adder' = [mapping_adder EXCEPT !.holder = CallerId]
                      /\ ev' = Guarded(
                                 Transacted(
                                   Event("send", 0, NoResult, NoChange, req, "None"),
                                   socket, NoReception, SocketOps(bind_ok)),
                                 <<"mapping_adder.lock">>, <<>>)
                      /\ UNCHANGED facade
  /\ UNCHANGED <<change_handler_config_opt, housekeeper_commander_opt,
                 threads, spawned, tx_held>>

AddMapping(env) ==
  \E hole_port \in env.ports, lifetime \in env.lifetimes, f \in env.sockets :
    MappingCall("add_mapping", hole_port, lifetime, f.bind_ok, f.send_ok)

\* delete_mapping asking for a mapping of one second
DeleteMapping_OneSecond(env) ==
  \E hole_port \in env.ports, f \in env.sockets :
    MappingCall("delete_mapping", hole_port, 1, f.bind_ok, f.send_ok)

DeleteMapping(env) ==
  \E hole_port \in env.ports, f \in env.sockets :
    MappingCall("delete_mapping", hole_port, 0, f.bind_ok, f.send_ok)

\* a facade that does not overwrite the ChangeHandlerConfig of a deleted
\* mapping
StoredConfig_KeepsDeleted(old, res, hole_port, lifetime) ==
  IF res.kind # "Ok" \/ (old.tag = "Some" /\ old.lifetime = 0) THEN old
  ELSE ChangeHandlerConfig(hole_port, lifetime)

\* a facade that stores a ChangeHandlerConfig only while it has none
StoredConfig_KeepsFirst(old, res, hole_port, lifetime) ==
  IF res.kind = "Ok" /\ old.tag = "None"
    THEN ChangeHandlerConfig(hole_port, lifetime)
  ELSE old

\* a facade that stores the ChangeHandlerConfig whatever the operation returned
StoredConfig_Always(old, res, hole_port, lifetime) ==
  ChangeHandlerConfig(hole_port, lifetime)

\* what the facade stores after the mapping operation returned res
StoredConfig(old, res, hole_port, lifetime) ==
  IF res.kind = "Ok" THEN ChangeHandlerConfig(hole_port, lifetime) ELSE old

\* The rest of add_mapping / delete_mapping: the reception r ends the
\* transaction, the response is classified, a success replaces the stored
\* ChangeHandlerConfig, and the mutex guard is dropped.
MappingCallReturns(env) ==
  /\ facade = "alive"
  /\ caller.op \in {"add_mapping", "delete_mapping"}
  /\ \E r \in env.replies :
       LET res == MapResponse(r)
           e == Event(caller.op, 0, MappingReturn(caller.op, res), NoChange,
                      MapRequest(caller.hole_port, caller.lifetime), "None")
       IN /\ change_handler_config_opt' =
               StoredConfig(change_handler_config_opt, res,
                            caller.hole_port, caller.lifetime)
          /\ ev' = [Guarded(Transacted(e, NoSocket, r, ReceiveOps),
                            <<>>, <<"mapping_adder.drop">>)
                      EXCEPT !.replaced =
                        IF res.kind = "Ok" THEN change_handler_config_opt
                        ELSE Untouched]
  /\ caller' = Idle
  /\ mapping_adder' = [mapping_adder EXCEPT !.holder = Unlocked]
  /\ UNCHANGED <<facade, housekeeper_commander_opt, threads, spawned, tx_held>>

\* get_public_ip up to the moment its Get request is on the wire
GetPublicIp(env) ==
  /\ CallerFree
  /\ \E f \in env.sockets :
       LET e == TransactSend(f.bind_ok, f.send_ok)
       IN IF e # NoResult
            THEN /\ ev' = Transacted(
                            Event("get_public_ip", 0, e, NoChange, GetRequest,
                                  "None"),
                            f, NoReception, SocketOps(f.bind_ok))
                 /\ UNCHANGED caller
            ELSE /\ caller' = [op |-> "get_public_ip", hole_port |-> 0,
                               lifetime |-> 0]
                 /\ ev' = Transacted(
                            Event("send", 0, NoResult, NoChange, GetRequest,
                                  "None"),
                            f, NoReception, SocketOps(f.bind_ok))
  /\ UNCHANGED <<facade, change_handler_config_opt, housekeeper_commander_opt,
                 mapping_adder, threads, spawned, tx_held>>

\* get_public_ip's reading of the response: the expect() calls panic on a
\* packet without result code or without Get payload.
GetResponse(r) ==
  LET e == TransactRecv(r)
      response == r.pkt
  IN IF e # NoResult THEN e
     ELSE IF response.result_code_opt = "None"
       THEN Err("panic", "transact allowed absent result code")
     ELSE IF response.result_code_opt # "Success"
       THEN Err("TransactionFailure", response.result_code_opt)
     ELSE IF response.opcode # "Get"
       THEN Err("panic", "Response parsing inoperative - opcode data")
     ELSE [kind |-> "Ok", detail |-> response.external_ip, val |-> 0]

GetPublicIpReturns(env) ==
  /\ facade = "alive"
  /\ caller.op = "get_public_ip"
  /\ \E r \in env.replies :
       LET res == GetResponse(r)
       IN /\ ev' = Transacted(
                       Event("get_public_ip", 0, res, NoChange, GetRequest,
                             "None"),
                       NoSocket, r, ReceiveOps)
          /\ facade' = IF res.kind = "panic" THEN "panicked" ELSE facade
  /\ caller' = Idle
  /\ UNCHANGED <<change_handler_config_opt, housekeeper_commander_opt,
                 mapping_adder, threads, spawned, tx_held>>

\* add_permanent_mapping done as add_mapping with the longest lifetime
AddPermanentMapping_Maps ==
  /\ CallerFree
  /\ \E hole_port \in HolePorts :
       /\ change_handler_config_opt' =
            ChangeHandlerConfig(hole_port, MaxLifetime)
       /\ ev' = Event("add_permanent_mapping", 0, Ok(0), NoChange,
                      MapRequest(hole_port, MaxLifetime), "None")
  /\ UNCHANGED <<facade, housekeeper_commander_opt, caller, mapping_adder,
                 threads, spawned, tx_held>>

\* add_permanent_mapping: panic!("PMP cannot add permanent mappings")
AddPermanentMapping ==
  /\ CallerFree
  /\ facade' = "panicked"
  /\ ev' = Event("add_permanent_mapping", 0,
                 Err("panic", "PMP cannot add permanent mappings"),
                 NoChange, NoRequest, "None")
  /\ UNCHANGED <<change_handler_config_opt, housekeeper_commander_opt, caller,
                 mapping_adder, threads, spawned, tx_held>>

\* The locals thread_guts starts with
NewThread(change_handler_config) ==
  [pc |-> "recv", rx |-> <<>>, elapsed |-> 0,
   remap_interval |-> from_secs(change_handler_config.lifetime),
   config |-> change_handler_config, public_ip |-> "None"]

\* start_housekeeping_thread refusing only while the thread behind the
\* sender it holds is still in its loop
StartCheck_AsksThread(commander_opt, config_opt, bind_ok) ==
  IF commander_opt # 0 /\ Alive(commander_opt)
    THEN Err("ChangeHandlerAlreadyRunning", "")
  ELSE IF config_opt.tag = "None" THEN Err("ChangeHandlerUnconfigured", "")
  ELSE IF ~bind_ok THEN Err("SocketBindingError", "224.0.0.1:listen_port")
  ELSE Ok(0)

\* start_housekeeping_thread without the test for a sender already held
StartCheck_IgnoresRunning(commander_opt, config_opt, bind_ok) ==
  IF config_opt.tag = "None" THEN Err("ChangeHandlerUnconfigured", "")
  ELSE IF ~bind_ok THEN Err("SocketBindingError", "224.0.0.1:listen_port")
  ELSE Ok(0)

\* start_housekeeping_thread without the test for a missing configuration
StartCheck_IgnoresConfig(commander_opt, config_opt, bind_ok) ==
  IF commander_opt # 0 THEN Err("ChangeHandlerAlreadyRunning", "")
  ELSE IF ~bind_ok THEN Err("SocketBindingError", "224.0.0.1:listen_port")
  ELSE Ok(0)

\* start_housekeeping_thread's verdict before it spawns anything
StartCheck(commander_opt, config_opt, bind_ok) ==
  IF commander_opt # 0 THEN Err("ChangeHandlerAlreadyRunning", "")
  ELSE IF config_opt.tag = "None" THEN Err("ChangeHandlerUnconfigured", "")
  ELSE IF ~bind_ok THEN Err("SocketBindingError", "224.0.0.1:listen_port")
  ELSE Ok(0)

\* start_housekeeping_thread binding the socket before it tests anything
StartBinds_First(commander_opt, config_opt) == TRUE

\* whether start_housekeeping_thread gets as far as asking the socket
\* factory for the announcement socket
StartBinds(commander_opt, config_opt) ==
  commander_opt = 0 /\ config_opt.tag = "Some"

BindRequest == [NoRequest EXCEPT !.opcode = "Bind"]

\* start_housekeeping_thread storing the sender before the bind is known to
\* have worked
CommanderAfterStart_BeforeBind(commander_opt, res, w) ==
  IF res.kind \in {"Ok", "SocketBindingError"} THEN w ELSE commander_opt

\* housekeeper_commander_opt after start_housekeeping_thread met verdict res,
\* w being the channel it creates on success
CommanderAfterStart(commander_opt, res, w) ==
  IF res.kind = "Ok" THEN w ELSE commander_opt

\* start_housekeeping_thread(change_handler, router_ip); bind_ok is what the
\* socket factory answers for 224.0.0.1:listen_port when it is asked.
\* what start_housekeeping_thread does to the factories guard when it gets
\* as far as binding the announcement socket (req says whether it does)
BindGuards(req) ==
  IF req = NoRequest THEN <<>>
  ELSE <<"factories.lock", "make", "factories.drop">>

StartHousekeepingThread(env) ==
  /\ CallerFree
  /\ \E bind_ok \in {f.bind_ok : f \in env.sockets} :
       LET res == StartCheck(housekeeper_commander_opt,
                             change_handler_config_opt, bind_ok)
           w == spawned + 1
           req == IF StartBinds(housekeeper_commander_opt,
                                change_handler_config_opt)
                    THEN BindRequest ELSE NoRequest
       IN /\ res.kind = "Ok" => spawned < env.workers
          /\ housekeeper_commander_opt' =
               CommanderAfterStart(housekeeper_commander_opt, res, w)
          /\ IF res.kind # "Ok"
               THEN /\ ev' = Guarded(Event("start_housekeeping_thread", 0, res,
                                           NoChange, req, "None"),
                                     BindGuards(req), <<>>)
                    /\ UNCHANGED <<threads, spawned, tx_held>>
               ELSE /\ threads' = [threads EXCEPT
                                     ![w] = NewThread(change_handler_config_opt)]
                    /\ spawned' = w
                    /\ tx_held' = tx_held \cup {w}
                    /\ ev' = Guarded(Event("start_housekeeping_thread", w, res,
                                           NoChange, req, "None"),
                                     BindGuards(req), <<>>)
  /\ UNCHANGED <<facade, change_handler_config_opt, caller, mapping_adder>>

\* stop_housekeeping_thread borrowing the sender instead of taking it
TakeCommander_Keeps(commander_opt) == commander_opt

\* Option::take: what it leaves in housekeeper_commander_opt
TakeCommander(commander_opt) == 0

\* stop_housekeeping_thread: take() the sender and send Stop through it
StopHousekeepingThread ==
  /\ CallerFree
  /\ IF housekeeper_commander_opt # 0
       THEN threads' = Send(threads, housekeeper_commander_opt, Stop)
       ELSE UNCHANGED threads
  /\ housekeeper_commander_opt' = TakeCommander(housekeeper_commander_opt)
  /\ ev' = Event("stop_housekeeping_thread", housekeeper_commander_opt,
                 NoResult, NoChange, NoRequest, "None")
  /\ UNCHANGED <<facade, change_handler_config_opt, caller, mapping_adder,
                 spawned, tx_held>>

\* The facade goes out of scope.  PmpTransactor has no Drop impl: its fields
\* are dropped, the Sender in housekeeper_commander_opt among them.
DropFacade ==
  /\ CallerFree
  /\ facade' = "dropped"
  /\ ev' = Event("drop", housekeeper_commander_opt, NoResult, NoChange, NoRequest, "None")
  /\ UNCHANGED <<change_handler_config_opt, housekeeper_commander_opt, caller,
                 mapping_adder, threads, spawned, tx_held>>

\* The client uses the Sender start_housekeeping_thread returned to it
TxSend(env) ==
  \E w \in tx_held, cmd \in env.commands :
    /\ Alive(w)
    /\ Len(threads[w].rx)
         + (IF facade = "alive" /\ housekeeper_commander_opt = w THEN 1 ELSE 0)
         < MaxQueue
    /\ threads' = Send(threads, w, cmd)
    /\ ev' = Event("tx_send", w, NoResult, NoChange, NoRequest, "None")
    /\ UNCHANGED <<facade, change_handler_config_opt, housekeeper_commander_opt,
                   caller, mapping_adder, spawned, tx_held>>

\* ... or drops it
TxDrop ==
  \E w \in tx_held :
    /\ tx_held' = tx_held \ {w}
    /\ ev' = Event("tx_drop", w, NoResult, NoChange, NoRequest, "None")
    /\ UNCHANGED <<facade, change_handler_config_opt, housekeeper_commander_opt,
                   caller, mapping_adder, threads, spawned>>

----------------------------------------------------------------------------
(* The housekeeping thread: PmpTransactor::thread_guts.  A step runs the    *)
(* thread from one blocking call to the next: recv_from on the announcement *)
(* socket, recv_from inside a transaction, lock() of mapping_adder_arc.     *)

\* the size of thread_guts' buffer
BufferLen == 100

\* the codec's header: version and opcode, then the result code of a response
HeaderLen == 2

ResultCodeEnd == 4

\* What the codec reads from the first len bytes of the encoding of pkt
\* followed by zeros: version 0 and opcode 0 (a Get request) when not even
\* the header is there; otherwise the direction and opcode of pkt, result
\* code 0 (Success) unless pkt's own is there, and a payload of zeros.
ZeroFilled(pkt, len) ==
  IF len < HeaderLen THEN PmpPacket("Request", "Get", "None", 0, "None")
  ELSE PmpPacket(pkt.direction, pkt.opcode,
                 IF pkt.direction # "Response" THEN "None"
                 ELSE IF len >= ResultCodeEnd THEN pkt.result_code_opt
                 ELSE "Success",
                 0,
                 IF pkt.direction = "Response" /\ pkt.opcode = "Get"
                   THEN "0.0.0.0" ELSE "None")

\* thread_guts' argument &buffer to parse_buffer after recv_from(&mut buffer)
\* returned r: all BufferLen bytes of the buffer that was zeroed at the top
\* of the iteration, the datagram's bytes first.  The codec reads a complete
\* datagram from it as it would from the datagram alone.
Buffer(r) ==
  IF r.io # "Ok" THEN r
  ELSE IF r.len >= Length(r.pkt) THEN [r EXCEPT !.len = BufferLen]
  ELSE [r EXCEPT !.len = BufferLen, !.parses = TRUE,
                 !.pkt = ZeroFilled(r.pkt, r.len)]

\* a parse_buffer that takes every Response for an announcement
parse_buffer_AnyResponse(r) ==
  IF ~r.parses
    THEN Err("ProtocolError", "Unparseable packet from router: ignoring")
  ELSE IF r.pkt.direction # "Response"
    THEN Err("ProtocolError",
             "Unexpected PMP Get request (request!) from router: ignoring")
  ELSE [kind |-> "Ok", detail |-> r.pkt.external_ip, val |-> 0]

\* PmpTransactor::parse_buffer on a datagram
parse_buffer(r) ==
  IF ~r.parses
    THEN Err("ProtocolError", "Unparseable packet from router: ignoring")
  ELSE IF r.pkt.direction # "Response"
    THEN Err("ProtocolError",
             "Unexpected PMP Get request (request!) from router: ignoring")
  ELSE IF r.pkt.opcode = "Get"
    THEN [kind |-> "Ok", detail |-> r.pkt.external_ip, val |-> 0]
  ELSE Err("ProtocolError",
           "Unexpected PMP response (instead of Get) from router: ignoring")

SocketFailure == Err("SocketReceiveError", "SocketFailure")

\* handle_announcement's err_msg: format!("... {:?}", result_code)
RemapFailedMsg(result_code) ==
  "Remapping after IP change failed; Node is useless: " \o result_code

\* a handler that hands transact's error to the change handler as it is
AnnouncementChange_RawError(r, public_ip) ==
  IF TransactRecv(r) # NoResult THEN ChangeError(TransactRecv(r))
  ELSE IF r.pkt.result_code_opt = "Success" THEN NewIp(public_ip)
  ELSE IF r.pkt.result_code_opt = "None"
    THEN ChangeError(Err("ProtocolError",
           "Remapping after IP change failed; Node is useless: Received request when expecting response"))
  ELSE IF is_permanent(r.pkt.result_code_opt)
    THEN ChangeError(Err("PermanentMappingError",
                         RemapFailedMsg(r.pkt.result_code_opt)))
  ELSE ChangeError(Err("TemporaryMappingError",
                       RemapFailedMsg(r.pkt.result_code_opt)))

\* a handler that only logs a packet without a result code
AnnouncementChange_SilentOnRequest(r, public_ip) ==
  IF TransactRecv(r) # NoResult THEN ChangeError(SocketFailure)
  ELSE IF r.pkt.result_code_opt = "Success" THEN NewIp(public_ip)
  ELSE IF r.pkt.result_code_opt = "None" THEN NoChange
  ELSE IF is_permanent(r.pkt.result_code_opt)
    THEN ChangeError(Err("PermanentMappingError",
                         RemapFailedMsg(r.pkt.result_code_opt)))
  ELSE ChangeError(Err("TemporaryMappingError",
                       RemapFailedMsg(r.pkt.result_code_opt)))

\* a handler that reports the address field of the MAP response instead of
\* the announced one
AnnouncementChange_ReplyAddress(r, public_ip) ==
  IF TransactRecv(r) # NoResult THEN ChangeError(SocketFailure)
  ELSE IF r.pkt.result_code_opt = "Success" THEN NewIp(r.pkt.external_ip)
  ELSE IF r.pkt.result_code_opt = "None"
    THEN ChangeError(Err("ProtocolError",
           "Remapping after IP change failed; Node is useless: Received request when expecting response"))
  ELSE IF is_permanent(r.pkt.result_code_opt)
    THEN ChangeError(Err("PermanentMappingError",
                         RemapFailedMsg(r.pkt.result_code_opt)))
  ELSE ChangeError(Err("TemporaryMappingError",
                       RemapFailedMsg(r.pkt.result_code_opt)))

\* handle_announcement's classification of the reception that ends its
\* transaction: the AutomapChange it hands to the change handler.
AnnouncementChange(r, public_ip) ==
  IF TransactRecv(r) # NoResult THEN ChangeError(SocketFailure)
  ELSE IF r.pkt.result_code_opt = "Success" THEN NewIp(public_ip)
  ELSE IF r.pkt.result_code_opt = "None"
    THEN ChangeError(Err("ProtocolError",
           "Remapping after IP change failed; Node is useless: Received request when expecting response"))
  ELSE IF is_permanent(r.pkt.result_code_opt)
    THEN ChangeError(Err("PermanentMappingError",
                         RemapFailedMsg(r.pkt.result_code_opt)))
  ELSE ChangeError(Err("TemporaryMappingError",
                       RemapFailedMsg(r.pkt.result_code_opt)))

\* a renewal test that also fires when exactly remap_interval has passed
RemapDue_AtInterval(t) == t.elapsed >= t.remap_interval

\* last_remapped.elapsed().gt(&remap_interval)
RemapDue(t) == t.elapsed > t.remap_interval

\* some Sender of thread w's channel exists: the facade's or the client's
Connected(w) ==
  \/ facade = "alive" /\ housekeeper_commander_opt = w
  \/ w \in tx_held

\* what rx.try_recv() yields
try_recv(rx, connected) ==
  IF rx # <<>> THEN Head(rx).cmd
  ELSE IF connected THEN "Empty" ELSE "Disconnected"

\* a poll that looks for a Stop anywhere in the channel first
Drained_StopFirst(t) ==
  IF \E i \in 1..Len(t.rx) : t.rx[i].cmd = "Stop" THEN Ended("done")
  ELSE IF t.rx = <<>> THEN [t EXCEPT !.pc = "recv"]
  ELSE [t EXCEPT !.pc = "recv", !.rx = Tail(@),
                 !.remap_interval = Head(t.rx).ms]

\* try_recv whose Err arm breaks out of the loop
Drained_BreaksOnErr(t) ==
  IF t.rx = <<>> THEN Ended("done")
  ELSE IF Head(t.rx).cmd = "Stop" THEN Ended("done")
  ELSE [t EXCEPT !.pc = "recv", !.rx = Tail(@),
                 !.remap_interval = Head(t.rx).ms]

\* The match on rx.try_recv() that ends a loop iteration: the thread after it
Drained(t) ==
  IF t.rx = <<>> THEN [t EXCEPT !.pc = "recv"]
  ELSE IF Head(t.rx).cmd = "Stop" THEN Ended("done")
  ELSE [t EXCEPT !.pc = "recv", !.rx = Tail(@),
                 !.remap_interval = Head(t.rx).ms]

\* The loop from the renewal test on, as far as it gets without blocking:
\* with a remap due the thread goes for the mapping_adder lock, otherwise it
\* polls its channel and starts the next iteration (or returns).
Checked(t) ==
  IF RemapDue(t) THEN [t EXCEPT !.pc = "check"] ELSE Drained(t)

\* ... and what try_recv yielded on that way ("None": it was not reached)
PolledAfterCheck(t, connected) ==
  IF RemapDue(t) THEN "None" ELSE try_recv(t.rx, connected)

\* a loop that parses whatever arrives, whoever sent it
Continues_AnySource(r) ==
  r.io = "Ok" /\ parse_buffer(Buffer(r)).kind # "Ok"

\* whether the loop `continue`s straight to the next recv_from after the
\* reception r: a datagram from a foreign source or one parse_buffer rejects
Continues(r) ==
  r.io = "Ok" /\ (r.src # RouterIp \/ parse_buffer(Buffer(r)).kind # "Ok")

\* what the thread reports of a reception that starts no remap
RecvResult(r) ==
  IF r.io # "Ok" THEN Err("io", r.io)
  ELSE IF r.src # RouterIp THEN Err("foreign", r.src)
  ELSE parse_buffer(Buffer(r))

\* a thread that reads the facade's change_handler_config_opt when it
\* builds a request
WorkerConfig_Shared(w) == change_handler_config_opt

\* thread_guts' parameter change_handler_config: the clone of the facade's
\* ChangeHandlerConfig that start_housekeeping_thread moved into the thread
WorkerConfig(w) == threads[w].config

\* recv_from on the announcement socket returns r.  A valid announcement
\* from the router starts handle_announcement's transaction; anything else
\* is dropped (continue) or leads on to the renewal test.
WorkerRecv(w, env) ==
  /\ threads[w].pc = "recv"
  /\ \E r \in env.announcements :
       IF Continues(r)
         THEN /\ threads' = threads
              /\ ev' = Announced(Event("recv", w, RecvResult(r), NoChange,
                                       NoRequest, "None"), r)
       ELSE IF r.io # "Ok"
         THEN /\ threads' = [threads EXCEPT ![w] = Checked(threads[w])]
              /\ ev' = Announced(Event("recv", w, RecvResult(r), NoChange,
                                       NoRequest,
                                       PolledAfterCheck(threads[w], Connected(w))),
                                 r)
       ELSE \E f \in env.sockets :
              LET e == TransactSend(f.bind_ok, f.send_ok)
                  req == MapRequest(WorkerConfig(w).hole_port,
                                    WorkerConfig(w).lifetime)
              IN IF e # NoResult
                   THEN /\ threads' = [threads EXCEPT ![w] = Checked(threads[w])]
                        /\ ev' = Transacted(
                                   Announced(
                                     Event("handle_announcement", w, e,
                                           ChangeError(SocketFailure), req,
                                           PolledAfterCheck(threads[w], Connected(w))),
                                     r),
                                   f, NoReception, SocketOps(f.bind_ok))
                   ELSE /\ threads' = [threads EXCEPT
                               ![w].pc = "announcing",
                               ![w].public_ip = parse_buffer(Buffer(r)).detail]
                        /\ ev' = Transacted(
                                   Announced(
                                     Event("send", w, NoResult, NoChange, req, "None"),
                                     r),
                                   f, NoReception, SocketOps(f.bind_ok))
  /\ UNCHANGED <<facade, change_handler_config_opt, housekeeper_commander_opt,
                 caller, mapping_adder, spawned, tx_held>>

\* The rest of handle_announcement: the reception r ends the transaction,
\* the change handler is called, and the loop goes on to the renewal test.
HandleAnnouncementReturns(w, env) ==
  /\ threads[w].pc = "announcing"
  /\ \E r \in env.replies :
       LET t == [threads[w] EXCEPT !.public_ip = "None"]
       IN /\ threads' = [threads EXCEPT ![w] = Checked(t)]
          /\ ev' = Transacted(
                     Event("handle_announcement", w,
                           IF TransactRecv(r) # NoResult THEN TransactRecv(r)
                           ELSE Ok(0),
                           AnnouncementChange(r, threads[w].public_ip), NoRequest,
                           PolledAfterCheck(t, Connected(w))),
                     NoSocket, r, ReceiveOps)
  /\ UNCHANGED <<facade, change_handler_config_opt, housekeeper_commander_opt,
                 caller, mapping_adder, spawned, tx_held>>

\* What thread_guts does when remap_port returned an error: todo!() panics
\* the thread while it holds the mapping_adder guard.
RenewalFailed(w, res, socket, reply, ops) ==
  /\ threads' = [threads EXCEPT ![w] = Ended("panicked")]
  /\ mapping_adder' = [holder |-> Unlocked, poisoned |-> TRUE]
  /\ ev' = Guarded(
             Transacted(Event("remap_port", w, res, NoChange, NoRequest, "None"),
                        socket, reply, ops),
             IF ops = ReceiveOps THEN <<>> ELSE <<"mapping_adder.lock">>,
             <<"mapping_adder.drop">>)

\* A remap is due: lock mapping_adder_arc (lock() blocks while another
\* thread holds the guard and panics on a poisoned mutex) and run remap_port
\* up to the point where its request is on the wire.
WorkerCheck(w, env) ==
  /\ threads[w].pc = "check"
  /\ mapping_adder.holder = Unlocked
  /\ IF mapping_adder.poisoned
       THEN /\ threads' = [threads EXCEPT ![w] = Ended("panicked")]
            /\ ev' = Guarded(
                       Event("lock", w, Err("panic", "PcpTransactor is dead"),
                             NoChange, NoRequest, "None"),
                       <<"mapping_adder.lock">>, <<>>)
            /\ UNCHANGED mapping_adder
       ELSE \E f \in env.sockets :
              LET e == TransactSend(f.bind_ok, f.send_ok)
                  req == MapRequest(WorkerConfig(w).hole_port,
                           RemapLifetime(from_secs(WorkerConfig(w).lifetime)))
              IN IF e # NoResult
                   THEN RenewalFailed(w, e, f, NoReception, SocketOps(f.bind_ok))
                   ELSE /\ threads' = [threads EXCEPT ![w].pc = "renewing"]
                        /\ mapping_adder' = [mapping_adder EXCEPT !.holder = w]
                        /\ ev' = Guarded(
                                   Transacted(
                                     Event("send", w, NoResult, NoChange, req, "None"),
                                     f, NoReception, SocketOps(f.bind_ok)),
                                   <<"mapping_adder.lock">>, <<>>)
  /\ UNCHANGED <<facade, change_handler_config_opt, housekeeper_commander_opt,
                 caller, spawned, tx_held>>

\* a loop that takes the interval remap_port returns for its remap_interval
Renewed_AppliesInterval(t, res) ==
  [t EXCEPT !.elapsed = 0, !.remap_interval = from_secs(res.val)]

\* The Ok arm of the match on remap_port's result: the returned interval is
\* dropped and last_remapped = Instant::now()
Renewed(t, res) == [t EXCEPT !.elapsed = 0]

\* The rest of the renewal: remap_port returns; on success last_remapped is
\* reset, the guard is dropped and the channel is polled.
RemapPortReturns(w, env) ==
  /\ threads[w].pc = "renewing"
  /\ \E r \in env.replies :
       LET res == MapResponse(r)
           t == Renewed(threads[w], res)
       IN IF res.kind # "Ok"
            THEN RenewalFailed(w, res, NoSocket, r, ReceiveOps)
            ELSE /\ threads' = [threads EXCEPT ![w] = Drained(t)]
                 /\ mapping_adder' = [mapping_adder EXCEPT !.holder = Unlocked]
                 /\ ev' = Guarded(
                            Transacted(
                              Event("remap_port", w, res, NoChange, NoRequest,
                                    try_recv(t.rx, Connected(w))),
                              NoSocket, r, ReceiveOps),
                            <<>>, <<"mapping_adder.drop">>)
  /\ UNCHANGED <<facade, change_handler_config_opt, housekeeper_commander_opt,
                 caller, spawned, tx_held>>

WorkerStep(w, env) ==
  \/ WorkerRecv(w, env)
  \/ HandleAnnouncementReturns(w, env)
  \/ WorkerCheck(w, env)
  \/ RemapPortReturns(w, env)

Worker(env) == \E w \in WorkerIds : WorkerStep(w, env)

\* the clock's quantum: a little over half the longest remap interval a
\* configuration gives, so that MaxTicks quanta outlast every interval
TickMs == (from_secs(MaxLifetime) \div 2) + 100

MaxElapsed == MaxTicks * TickMs

\* Time passes: Instant::now() moves on by env.tick_ms for every running
\* thread (followed up to MaxElapsed since its last_remapped)
Tick(env) ==
  /\ \E w \in WorkerIds : Alive(w) /\ threads[w].elapsed < MaxElapsed
  /\ threads' = [w \in WorkerIds |->
                   IF Alive(w) /\ threads[w].elapsed < MaxElapsed
                     THEN [threads[w] EXCEPT !.elapsed =
                             IF @ + env.tick_ms > MaxElapsed THEN MaxElapsed
                             ELSE @ + env.tick_ms]
                     ELSE threads[w]]
  /\ ev' = Event("tick", 0, NoResult, NoChange, NoRequest, "None")
  /\ UNCHANGED <<facade, change_handler_config_opt, housekeeper_commander_opt,
                 caller, mapping_adder, spawned, tx_held>>

----------------------------------------------------------------------------
(* Environments: what the caller asks for and what the sockets answer *)

\* what the socket factory and send_to answer: bind fails, send fails, both work
Sockets ==
  {[bind_ok |-> TRUE, send_ok |-> TRUE], [bind_ok |-> FALSE, send_ok |-> TRUE],
   [bind_ok |-> TRUE, send_ok |-> FALSE]}

\* The life cycle of the housekeeping threads: several threads per facade,
\* started, stopped and abandoned by a client that does not use the Sender
\* start_housekeeping_thread returns.
Lifecycle ==
  [workers |-> MaxWorkers,
   tick_ms |-> MaxElapsed,
   ports |-> {1234},
   lifetimes |-> {MaxLifetime},
   commands |-> {Stop},
   sockets |-> {f \in Sockets : f.send_ok},
   announcements |->
     {IoError("TimedOut"),
      Datagram("7.7.7.7", TRUE, PmpPacket("Response", "Get", "Success", 0, "72.73.74.75")),
      Datagram(RouterIp, TRUE, PmpPacket("Response", "Get", "Success", 0, "72.73.74.75"))},
   replies |->
     {IoError("TimedOut"),
      Datagram(RouterIp, TRUE, PmpPacket("Response", "MapTcp", "Success", MaxGranted, "None")),
      Datagram(RouterIp, TRUE, PmpPacket("Response", "MapTcp", "OutOfResources", 0, "None"))}]

Next ==
  \/ AddMapping(Lifecycle)
  \/ MappingCallReturns(Lifecycle)
  \/ AddPermanentMapping
  \/ StartHousekeepingThread(Lifecycle)
  \/ StopHousekeepingThread
  \/ DropFacade
  \/ Worker(Lifecycle)
  \/ Tick(Lifecycle)

Spec == Init /\ [][Next]_vars

\* One housekeeping thread, commanded by the facade and by the client through
\* the Sender it was given, with every way a receive, a remap and a send can
\* turn out.
Housekeeping ==
  [workers |-> 1,
   tick_ms |-> TickMs,
   ports |-> {1234},
   lifetimes |-> {MaxLifetime},
   commands |-> Commands,
   sockets |-> Sockets,
   announcements |->
     {IoError("TimedOut"), IoError("WouldBlock"), IoError("ConnectionReset"),
      Datagram("7.7.7.7", TRUE, PmpPacket("Response", "Get", "Success", 0, "72.73.74.75")),
      Datagram(RouterIp, FALSE, NoPacket),
      Datagram(RouterIp, TRUE, PmpPacket("Request", "Get", "None", 0, "None")),
      Datagram(RouterIp, TRUE, PmpPacket("Response", "MapTcp", "Success", MaxGranted, "None")),
      Datagram(RouterIp, TRUE, PmpPacket("Response", "Get", "Success", 0, "72.73.74.75"))},
   replies |->
     {IoError("TimedOut"), IoError("ConnectionReset"),
      Datagram(RouterIp, FALSE, NoPacket),
      Datagram(RouterIp, TRUE, PmpPacket("Response", "MapTcp", "Success", MaxGranted, "None")),
      Datagram(RouterIp, TRUE, PmpPacket("Response", "MapTcp", "OutOfResources", 0, "None")),
      Datagram(RouterIp, TRUE, PmpPacket("Response", "MapTcp", "UnsupportedOpcode", 0, "None"))}]

HousekeepingNext ==
  \/ AddMapping(Housekeeping)
  \/ MappingCallReturns(Housekeeping)
  \/ StartHousekeepingThread(Housekeeping)
  \/ StopHousekeepingThread
  \/ DropFacade
  \/ TxSend(Housekeeping)
  \/ TxDrop
  \/ Worker(Housekeeping)
  \/ Tick(Housekeeping)

HousekeepingSpec == Init /\ [][HousekeepingNext]_vars

\* The scheduler runs every housekeeping thread that can take a step, also
\* one that can only from time to time because it waits for the mapping_adder
\* guard; and a transaction of the caller ends (its socket has a 3 second
\* read timeout).
Fairness ==
  /\ \A w \in WorkerIds : SF_vars(WorkerStep(w, Housekeeping))
  /\ WF_vars(MappingCallReturns(Housekeeping))

FairSpec == HousekeepingSpec /\ Fairness

\* The calls of the facade with every argument, every way the socket
\* factory and the socket can fail and everything a transaction can receive,
\* from the router or from anyone else (transact ignores the source); one
\* housekeeping thread may be started and stopped in between.
Calls ==
  [workers |-> 1,
   tick_ms |-> MaxElapsed,
   ports |-> HolePorts,
   lifetimes |-> Lifetimes,
   commands |-> {Stop},
   sockets |-> Sockets,
   announcements |-> {IoError("TimedOut")},
   replies |-> Receptions(SourceIps)]

CallsNext ==
  \/ GetPublicIp(Calls)
  \/ GetPublicIpReturns(Calls)
  \/ AddMapping(Calls)
  \/ DeleteMapping(Calls)
  \/ MappingCallReturns(Calls)
  \/ AddPermanentMapping
  \/ StartHousekeepingThread(Calls)
  \/ StopHousekeepingThread

CallsSpec == Init /\ [][CallsNext]_vars

\* A mapping installed, deleted and installed again: add_mapping with the
\* lifetimes a mapping can live for, and delete_mapping.
RoundTrip ==
  [workers |-> 1,
   tick_ms |-> MaxElapsed,
   ports |-> HolePorts,
   lifetimes |-> Lifetimes \ {0},
   commands |-> {Stop},
   sockets |-> Sockets,
   announcements |-> {IoError("TimedOut")},
   replies |-> Receptions({RouterIp})]

RoundTripNext ==
  \/ AddMapping(RoundTrip)
  \/ DeleteMapping(RoundTrip)
  \/ MappingCallReturns(RoundTrip)

RoundTripSpec == Init /\ [][RoundTripNext]_vars

\* One housekeeping thread, started with every MappingConfig the facade can
\* hold (add_mapping and delete_mapping store theirs), with every kind of
\* datagram with a payload that the announcement socket can deliver, from
\* the router or from anyone else, and every way a transaction can end.
Remapping ==
  [workers |-> 1,
   tick_ms |-> TickMs,
   ports |-> HolePorts,
   lifetimes |-> Lifetimes,
   commands |-> {Stop},
   sockets |-> Sockets,
   announcements |->
     {r \in Receptions(SourceIps) :
        (r.io = "Ok" => r.len > 0) /\ r.pkt.lifetime \in {0, MaxGranted}},
   replies |->
     {IoError("TimedOut"), IoError("ConnectionReset"),
      Datagram(RouterIp, FALSE, NoPacket),
      Datagram(RouterIp, TRUE, PmpPacket("Request", "MapTcp", "None", 0, "None")),
      Datagram(RouterIp, TRUE, PmpPacket("Response", "Get", "Success", 0, "72.73.74.75")),
      Datagram(RouterIp, TRUE, PmpPacket("Response", "MapTcp", "Success", MaxGranted, "None")),
      Datagram(RouterIp, TRUE, PmpPacket("Response", "MapTcp", "OutOfResources", 0, "None")),
      Datagram(RouterIp, TRUE, PmpPacket("Response", "MapTcp", "UnsupportedOpcode", 0, "None"))}]

RemappingNext ==
  \/ AddMapping(Remapping)
  \/ DeleteMapping(Remapping)
  \/ MappingCallReturns(Remapping)
  \/ StartHousekeepingThread(Remapping)
  \/ Worker(Remapping)
  \/ Tick(Remapping)

RemappingSpec == Init /\ [][RemappingNext]_vars

\* the remap intervals a client sets: those of RemapMs and the clock's
\* quantum, which the time since last_remapped reaches exactly
IntervalsMs == RemapMs \cup {TickMs}

\* One housekeeping thread and the client that holds its Sender, after the
\* facade is gone or while it is there: the client queues remap intervals
\* and Stop while time passes, datagrams arrive and renewals succeed or fail.
Timing ==
  [workers |-> 1,
   tick_ms |-> TickMs,
   ports |-> {1234},
   lifetimes |-> {MaxLifetime},
   commands |-> {Stop} \cup {SetRemapIntervalMs(n) : n \in IntervalsMs},
   sockets |-> Sockets,
   announcements |->
     {IoError("TimedOut"),
      Datagram("7.7.7.7", TRUE, PmpPacket("Response", "Get", "Success", 0, "72.73.74.75")),
      Datagram(RouterIp, TRUE, PmpPacket("Response", "Get", "Success", 0, "72.73.74.75"))},
   replies |->
     {IoError("TimedOut"),
      Datagram(RouterIp, TRUE, PmpPacket("Response", "MapTcp", "Success", MaxGranted, "None")),
      Datagram(RouterIp, TRUE, PmpPacket("Response", "MapTcp", "OutOfResources", 0, "None"))}]

TimingNext ==
  \/ AddMapping(Timing)
  \/ MappingCallReturns(Timing)
  \/ StartHousekeepingThread(Timing)
  \/ DropFacade
  \/ TxSend(Timing)
  \/ TxDrop
  \/ Worker(Timing)
  \/ Tick(Timing)

TimingSpec == Init /\ [][TimingNext]_vars

\* the announcements of a new address the router can make, whole
Announcements ==
  {PmpPacket("Response", "Get", rc, 0, ip) :
     rc \in {"Success", "OutOfResources"}, ip \in PublicIps}

\* the lengths at which a datagram is cut: after the header, after the
\* result code
CutLens == {HeaderLen, ResultCodeEnd}

\* One housekeeping thread whose announcement socket delivers datagrams of
\* every length: none at all, whole announcements, announcements and
\* requests cut short, and one with nothing in it.
ShortDatagrams ==
  [workers |-> 1,
   tick_ms |-> TickMs,
   ports |-> {1234},
   lifetimes |-> {MaxLifetime},
   commands |-> {Stop},
   sockets |-> Sockets,
   announcements |->
     {IoError("TimedOut"), EmptyDatagram(RouterIp), EmptyDatagram("7.7.7.7"),
      Datagram(RouterIp, FALSE, NoPacket)}
     \cup {Datagram(RouterIp, TRUE, p) : p \in Announcements}
     \cup {Truncated(RouterIp, p, n) : p \in Announcements, n \in CutLens}
     \cup {Truncated(RouterIp, PmpPacket("Request", "Get", "None", 0, "None"),
                     HeaderLen)},
   replies |->
     {IoError("TimedOut"),
      Datagram(RouterIp, TRUE, PmpPacket("Response", "MapTcp", "Success", MaxGranted, "None")),
      Datagram(RouterIp, TRUE, PmpPacket("Response", "MapTcp", "OutOfResources", 0, "None"))}]

ShortDatagramsNext ==
  \/ AddMapping(ShortDatagrams)
  \/ MappingCallReturns(ShortDatagrams)
  \/ StartHousekeepingThread(ShortDatagrams)
  \/ Worker(ShortDatagrams)
  \/ Tick(ShortDatagrams)

ShortDatagramsSpec == Init /\ [][ShortDatagramsNext]_vars

\* Several housekeeping threads, one after the other, of a facade whose
\* client keeps the Senders it was given and sends Stop through them, while
\* the facade is started and stopped as well.
Restart ==
  [workers |-> MaxWorkers,
   tick_ms |-> MaxElapsed,
   ports |-> {1234},
   lifetimes |-> {MaxLifetime},
   commands |-> {Stop},
   sockets |-> {f \in Sockets : f.send_ok},
   announcements |->
     {IoError("TimedOut"),
      Datagram(RouterIp, TRUE, PmpPacket("Response", "Get", "Success", 0, "72.73.74.75"))},
   replies |->
     {IoError("TimedOut"),
      Datagram(RouterIp, TRUE, PmpPacket("Response", "MapTcp", "Success", MaxGranted, "None"))}]

RestartNext ==
  \/ AddMapping(Restart)
  \/ MappingCallReturns(Restart)
  \/ StartHousekeepingThread(Restart)
  \/ StopHousekeepingThread
  \/ TxSend(Restart)
  \/ Worker(Restart)
  \/ Tick(Restart)

RestartSpec == Init /\ [][RestartNext]_vars

----------------------------------------------------------------------------
(* Properties *)

HasStop(w) == \E i \in 1..Len(threads[w].rx) : threads[w].rx[i] = Stop

AliveWorkers == {w \in WorkerIds : Alive(w)}

AliveIn(ths, w) == ths[w].pc \in Running

\* the Sender of thread w's channel that the facade holds
FacadeHolds(w) == facade = "alive" /\ housekeeper_commander_opt = w

\* C1: a periodic renewal that returns an error hands that error to the
\* change handler as AutomapChange::Error and leaves the thread running.
C1_RenewalErrorReachesObserver ==
  (ev.op = "remap_port" /\ ev.res.kind # "Ok")
    => (ev.change = ChangeError(ev.res) /\ Alive(ev.w))

\* C2: once a Stop waits in a running thread's channel, the thread
\* eventually leaves its loop, whatever arrives on the announcement socket.
C2_StopLeadsToExit ==
  \A w \in WorkerIds : (Alive(w) /\ HasStop(w)) ~> ~Alive(w)

C4_AtMostOneWorkerAlive == Cardinality(AliveWorkers) <= 1

\* C5: a start made while the facade holds a command sender returns
\* ChangeHandlerAlreadyRunning without asking the socket factory, spawns
\* nothing and leaves the sender, the threads and their channels as they were.
C5_StartWhileRunning ==
  [][(ev'.op = "start_housekeeping_thread" /\ housekeeper_commander_opt # 0)
       => /\ ev'.res = Err("ChangeHandlerAlreadyRunning", "")
          /\ ev'.req = NoRequest
          /\ UNCHANGED <<housekeeper_commander_opt, threads, spawned, tx_held,
                         change_handler_config_opt, mapping_adder>>]_vars

C5_Witness ==
  /\ ev.op = "start_housekeeping_thread"
  /\ ev.res.kind = "ChangeHandlerAlreadyRunning"
  /\ Alive(housekeeper_commander_opt)

\* C6: a start made before any add_mapping succeeded returns
\* ChangeHandlerUnconfigured without asking the socket factory, spawns
\* nothing and leaves the command sender absent.
C6_StartUnconfigured ==
  [][(ev'.op = "start_housekeeping_thread"
        /\ change_handler_config_opt.tag = "None")
       => /\ ev'.res = Err("ChangeHandlerUnconfigured", "")
          /\ ev'.req = NoRequest
          /\ housekeeper_commander_opt' = 0
          /\ UNCHANGED <<threads, spawned, tx_held, change_handler_config_opt>>]_vars

C6_Witness ==
  /\ ev.op = "start_housekeeping_thread"
  /\ ev.res.kind = "ChangeHandlerUnconfigured"
  /\ spawned = 0
  /\ housekeeper_commander_opt = 0

\* C7: a start whose announcement socket cannot be bound returns
\* SocketBindingError, spawns nothing, leaves the command sender absent and
\* the ChangeHandlerConfig as it was; and whenever the facade is in that
\* condition (configured, no sender held) a start whose bind succeeds spawns
\* a thread and keeps its sender.
C7_BindFailureLeavesFacadeStartable ==
  [][/\ (ev'.op = "start_housekeeping_thread"
           /\ ev'.res.kind = "SocketBindingError")
          => /\ ev'.req = BindRequest
             /\ housekeeper_commander_opt' = 0
             /\ change_handler_config_opt'.tag = "Some"
             /\ UNCHANGED <<threads, spawned, tx_held, change_handler_config_opt>>
     /\ (ev'.op = "start_housekeeping_thread" /\ ev'.res.kind = "Ok")
          => /\ spawned' = spawned + 1
             /\ AliveIn(threads', spawned')
             /\ housekeeper_commander_opt' = spawned'
     /\ (ev'.op = "start_housekeeping_thread" /\ ev'.req = BindRequest)
          => ev'.res.kind \in {"Ok", "SocketBindingError"}]_vars

C7_Witness ==
  /\ ev.op = "start_housekeeping_thread"
  /\ ev.res.kind = "SocketBindingError"
  /\ housekeeper_commander_opt = 0
  /\ change_handler_config_opt.tag = "Some"
  /\ spawned < MaxWorkers

\* C8 as stated: the first stop after a start puts exactly one Stop in the
\* thread's channel and clears the sender; any other stop changes nothing.
C8_FirstStopAlwaysEnqueues ==
  [][ev'.op = "stop_housekeeping_thread" =>
       IF housekeeper_commander_opt # 0
         THEN /\ threads'[housekeeper_commander_opt].rx =
                   Append(threads[housekeeper_commander_opt].rx, Stop)
              /\ housekeeper_commander_opt' = 0
         ELSE UNCHANGED <<threads, housekeeper_commander_opt>>]_vars

\* C8 as amended: the first stop after a start clears the sender and sends
\* one Stop through it, which is appended to the channel when the thread is
\* still running and is lost (the send's error is discarded) when the thread
\* has already ended; any other stop changes nothing; no stop fails.
C8_StopIdempotent ==
  [][ev'.op = "stop_housekeeping_thread" =>
       /\ facade' = "alive"
       /\ ev'.res.kind # "panic"
       /\ housekeeper_commander_opt' = 0
       /\ UNCHANGED <<change_handler_config_opt, mapping_adder, spawned,
                      tx_held, caller>>
       /\ \A w \in WorkerIds :
            IF w = housekeeper_commander_opt /\ Alive(w)
              THEN threads'[w] =
                     [threads[w] EXCEPT !.rx = Append(threads[w].rx, Stop)]
              ELSE threads'[w] = threads[w]]_vars

\* a stop that found no sender, made after a thread had been started
C8_Witness ==
  /\ ev.op = "stop_housekeeping_thread"
  /\ ev.w = 0
  /\ spawned >= 1
  /\ housekeeper_commander_opt = 0

\* C9: dropping a facade whose thread is running delivers a Stop to it.
C9_DropStopsWorker ==
  (ev.op = "drop" /\ ev.w # 0 /\ Alive(ev.w)) => HasStop(ev.w)

\* C10: a thread leaves its loop only by taking a Stop out of its channel or
\* by panicking; a poll of an empty or disconnected channel, a receive
\* timeout or error, a dropped or rejected datagram and a handled
\* announcement, whatever its outcome, leave it running.
C10_ExitOnlyByStop ==
  [][/\ \A w \in WorkerIds :
          (Alive(w) /\ ~AliveIn(threads', w)) =>
             \/ threads'[w].pc = "panicked"
             \/ /\ ev'.w = w
                /\ ev'.polled = "Stop"
                /\ threads[w].rx # <<>>
                /\ Head(threads[w].rx) = Stop
                /\ threads'[w].pc = "done"
     /\ (ev'.op \in {"recv", "handle_announcement", "remap_port"}
           /\ ev'.res.kind # "panic"
           /\ (ev'.op = "remap_port" => ev'.res.kind = "Ok")
           /\ ev'.polled # "Stop")
          => AliveIn(threads', ev'.w)]_vars

\* a thread polled its channel after every Sender of it was dropped
C10_Witness ==
  /\ ev.op \in {"recv", "handle_announcement"}
  /\ ev.polled = "Disconnected"
  /\ Alive(ev.w)
  /\ ev.w \notin tx_held
  /\ ~FacadeHolds(ev.w)

----------------------------------------------------------------------------
(* Properties of the facade's calls *)

\* the transaction of the last step handed a parsed packet to its caller
Parsed(e) == e.reply.io = "Ok" /\ e.reply.len > 0 /\ e.reply.parses

\* the last step was a mapping call returning after its transaction
MapReturned(e) ==
  e.op \in {"add_mapping", "delete_mapping"} /\ e.ops = <<"recv_from">>

\* C11: an add_mapping answered by a MapTcp Response with result code Success
\* returns Ok(n) with n the integer half of the lifetime the response
\* carries, whatever lifetime was asked for.
C11_HalfOfGrantedLifetime ==
  (/\ ev.op = "add_mapping"
   /\ Parsed(ev)
   /\ ev.reply.pkt.direction = "Response"
   /\ ev.reply.pkt.opcode = "MapTcp"
   /\ ev.reply.pkt.result_code_opt = "Success")
    => /\ ev.res.kind = "Ok"
       /\ 2 * ev.res.val <= ev.reply.pkt.lifetime
       /\ ev.reply.pkt.lifetime < 2 * ev.res.val + 2

\* the router granted more than was asked for, and half of what was asked
\* for is not what came back
C11_Witness ==
  /\ ev.op = "add_mapping"
  /\ ev.res.kind = "Ok"
  /\ ev.req.lifetime = MaxLifetime
  /\ ev.reply.pkt.lifetime = MaxGranted
  /\ ev.res.val # ev.req.lifetime \div 2
  /\ ev.req.internal_port = 7777

\* C12: the stored ChangeHandlerConfig starts absent, every successful
\* add_mapping replaces it by the port and the lifetime asked for, every
\* successful delete_mapping by the port and lifetime 0, and no other step
\* changes it; so it is absent until the first success and afterwards that
\* of the latest successful call.
C12_ConfigIsLatestSuccess ==
  /\ change_handler_config_opt = NoConfig
  /\ [][IF MapReturned(ev') /\ ev'.res.kind = "Ok"
          THEN /\ caller.op = ev'.op
               /\ change_handler_config_opt' =
                    ChangeHandlerConfig(caller.hole_port,
                      IF ev'.op = "delete_mapping" THEN 0 ELSE caller.lifetime)
          ELSE change_handler_config_opt' = change_handler_config_opt]_vars

\* a successful add_mapping replaced a ChangeHandlerConfig of another port
\* and lifetime
C12_Witness ==
  /\ ev.op = "add_mapping"
  /\ ev.res.kind = "Ok"
  /\ ev.replaced.tag = "Some"
  /\ ev.replaced.hole_port # change_handler_config_opt.hole_port
  /\ ev.replaced.lifetime # change_handler_config_opt.lifetime
  /\ change_handler_config_opt =
       ChangeHandlerConfig(ev.req.internal_port, ev.req.lifetime)

\* C13: an add_mapping whose response is labeled Request or has an opcode
\* other than MapTcp returns a ProtocolError, and an add_mapping or
\* delete_mapping that does not return Ok leaves the stored
\* ChangeHandlerConfig as it was.
C13_ErrorsLeaveConfig ==
  [][/\ (/\ ev'.op = "add_mapping"
         /\ Parsed(ev')
         /\ (ev'.reply.pkt.direction = "Request"
               \/ ev'.reply.pkt.opcode # "MapTcp"))
          => ev'.res.kind = "ProtocolError"
     /\ (ev'.op \in {"add_mapping", "delete_mapping"} /\ ev'.res.kind # "Ok")
          => change_handler_config_opt' = change_handler_config_opt]_vars

\* an add_mapping got a Success response of another opcode while a
\* ChangeHandlerConfig was stored
C13_Witness ==
  /\ ev.op = "add_mapping"
  /\ ev.res.kind = "ProtocolError"
  /\ Parsed(ev)
  /\ ev.reply.pkt.direction = "Response"
  /\ ev.reply.pkt.opcode = "Other(127)"
  /\ change_handler_config_opt.tag = "Some"
  /\ change_handler_config_opt.hole_port # ev.req.internal_port

\* C14: an add_mapping answered by a MapTcp Response with a result code
\* other than Success returns PermanentMappingError with the code's name
\* when the code is permanent and TemporaryMappingError with the code's name
\* when it is not, and so never Ok.
C14_RefusalsClassified ==
  (/\ ev.op = "add_mapping"
   /\ Parsed(ev)
   /\ ev.reply.pkt.direction = "Response"
   /\ ev.reply.pkt.opcode = "MapTcp"
   /\ ev.reply.pkt.result_code_opt # "Success")
    => ev.res =
         [kind |-> IF is_permanent(ev.reply.pkt.result_code_opt)
                     THEN "PermanentMappingError"
                     ELSE "TemporaryMappingError",
          detail |-> ev.reply.pkt.result_code_opt,
          val |-> 0]

\* the router refused for good, granting a lifetime all the same
C14_Witness ==
  /\ ev.op = "add_mapping"
  /\ ev.res = Err("PermanentMappingError", "UnsupportedOpcode")
  /\ ev.reply.pkt.lifetime = MaxGranted

\* C15: add_permanent_mapping fails in whatever state the facade is, asks for
\* no socket and sends nothing, and leaves the ChangeHandlerConfig, the
\* command sender, the mutex and the threads as they were.
C15_PermanentMappingFails ==
  [][ev'.op = "add_permanent_mapping"
       => /\ ev'.res.kind = "panic"
          /\ ev'.ops = <<>>
          /\ ev'.req = NoRequest
          /\ UNCHANGED <<change_handler_config_opt, housekeeper_commander_opt,
                         caller, mapping_adder, threads, spawned, tx_held>>]_vars

\* add_permanent_mapping was called on a configured facade with a thread
C15_Witness ==
  /\ ev.op = "add_permanent_mapping"
  /\ ev.res.kind = "panic"
  /\ change_handler_config_opt.tag = "Some"
  /\ housekeeper_commander_opt # 0

\* what add_mapping returns for the socket outcome and the reception
\* recorded in the event e
AddMappingOutcome(e) ==
  IF e.ops = ReceiveOps THEN MapResponse(e.reply)
  ELSE TransactSend(e.socket.bind_ok, e.socket.send_ok)

\* C16: delete_mapping puts one MapTcp request on the wire, with internal
\* and external port the hole port and lifetime 0; it returns Ok(()) exactly
\* when add_mapping returns Ok for the same exchange, and add_mapping's
\* error otherwise.
C16_DeleteIsAddWithLifetimeZero ==
  /\ (ev.op = "send" /\ caller.op = "delete_mapping")
       => /\ ev.req.opcode = "MapTcp"
          /\ ev.req.internal_port = caller.hole_port
          /\ ev.req.external_port = caller.hole_port
          /\ ev.req.lifetime = 0
          /\ ev.req.external_ip_address_opt = "None"
          /\ Len(SelectSeq(ev.ops, LAMBDA o : o = "send_to")) = 1
  /\ (ev.op = "delete_mapping" /\ ev.res.kind # "panic")
       => /\ ev.req.lifetime = 0
          /\ (ev.res.kind = "Ok") = (AddMappingOutcome(ev).kind = "Ok")
          /\ ev.res.kind = "Ok" => ev.res = Ok(0)
          /\ ev.res.kind # "Ok" => ev.res = AddMappingOutcome(ev)

\* a delete_mapping succeeded, dropping the interval the response gave
C16_Witness ==
  /\ ev.op = "delete_mapping"
  /\ ev.res = Ok(0)
  /\ ev.reply.pkt.lifetime = MaxGranted
  /\ AddMappingOutcome(ev).val > 0
  /\ change_handler_config_opt = ChangeHandlerConfig(ev.req.internal_port, 0)

\* C17: a successful add_mapping(p, l) that follows a successful
\* delete_mapping(p) leaves the ChangeHandlerConfig {p, l}, which is the one
\* a successful add_mapping(p, l) before the delete_mapping had stored.
C17_DeleteThenAddRestores ==
  (/\ ev.op = "add_mapping"
   /\ ev.res.kind = "Ok"
   /\ ev.replaced = ChangeHandlerConfig(ev.req.internal_port, 0))
    => change_handler_config_opt =
         ChangeHandlerConfig(ev.req.internal_port, ev.req.lifetime)

\* the add_mapping after the delete_mapping returned
C17_Witness ==
  /\ ev.op = "add_mapping"
  /\ ev.res.kind = "Ok"
  /\ ev.replaced = ChangeHandlerConfig(ev.req.internal_port, 0)
  /\ ev.req.lifetime = MaxLifetime
  /\ change_handler_config_opt =
       ChangeHandlerConfig(ev.req.internal_port, MaxLifetime)

\* C18: get_public_ip returns the external address the response carries
\* when the response's result code is Success, and TransactionFailure with
\* the code's name for every other result code.
C18_GetPublicIpReturnsAddress ==
  (/\ ev.op = "get_public_ip"
   /\ Parsed(ev)
   /\ ev.reply.pkt.result_code_opt # "None")
    => IF ev.reply.pkt.result_code_opt = "Success"
         THEN ev.res.kind = "Ok" /\ ev.res.detail = ev.reply.pkt.external_ip
         ELSE ev.res = Err("TransactionFailure", ev.reply.pkt.result_code_opt)

\* the step ran the part of a transaction that ends with send_to
SendPhase(e) == e.ops # <<>> /\ e.ops # <<"recv_from">>

\* C19: a transaction asks the socket factory for one socket; when that
\* fails nothing more is done; otherwise the read timeout is set once and
\* one send_to is made; when that fails nothing is received; otherwise one
\* recv_from follows and ends the transaction.
C19_OneSendOneReceive ==
  [][/\ SendPhase(ev')
          => /\ caller = Idle
             /\ ev'.ops = IF ev'.socket.bind_ok
                            THEN <<"make", "set_read_timeout", "send_to">>
                            ELSE <<"make">>
             /\ (caller' # Idle) = (ev'.socket.bind_ok /\ ev'.socket.send_ok)
             /\ (caller' # Idle) = (ev'.op = "send")
     /\ ev'.ops = <<"recv_from">> => (caller # Idle /\ caller' = Idle)
     /\ caller # Idle => ev'.ops = <<"recv_from">>
     /\ ev'.op \in {"get_public_ip", "add_mapping", "delete_mapping"}
          => (SendPhase(ev') \/ ev'.ops = <<"recv_from">>)]_vars

\* a transaction went through: get_public_ip returned an address
C19_Witness ==
  /\ ev.op = "get_public_ip"
  /\ ev.res.kind = "Ok"
  /\ ev.ops = <<"recv_from">>
  /\ caller = Idle

\* C20: a call of the facade that fails in its transaction returns
\* SocketBindingError when no socket could be made, SocketSendError when
\* send_to failed, ProtocolError("Timed out after 3 seconds") when recv_from
\* failed with WouldBlock or TimedOut, SocketReceiveError when it failed
\* otherwise, and PacketParseError when the codec rejects the datagram, an
\* empty one included.
C20_FailureClassified ==
  ev.op \in {"get_public_ip", "add_mapping", "delete_mapping"}
    => /\ (SendPhase(ev) /\ ~ev.socket.bind_ok)
            => ev.res = Err("SocketBindingError", "0.0.0.0:ephemeral")
       /\ (SendPhase(ev) /\ ev.socket.bind_ok)
            => (~ev.socket.send_ok /\ ev.res.kind = "SocketSendError")
       /\ (ev.ops = <<"recv_from">> /\ ev.reply.io \in {"WouldBlock", "TimedOut"})
            => ev.res = Err("ProtocolError", "Timed out after 3 seconds")
       /\ (ev.ops = <<"recv_from">>
             /\ ev.reply.io \notin {"Ok", "WouldBlock", "TimedOut"})
            => ev.res.kind = "SocketReceiveError"
       /\ (ev.ops = <<"recv_from">> /\ ev.reply.io = "Ok" /\ ~Parsed(ev))
            => ev.res.kind = "PacketParseError"
       /\ (ev.ops = <<"recv_from">> /\ ev.reply.io = "Ok" /\ ev.reply.len = 0)
            => ev.res = Err("PacketParseError", "ShortBuffer")
       /\ ev.res.kind \in {"SocketBindingError", "SocketSendError",
                           "SocketReceiveError", "PacketParseError"}
            => ~Parsed(ev)

\* delete_mapping got an empty datagram
C20_Witness ==
  /\ ev.op = "delete_mapping"
  /\ ev.reply = EmptyDatagram(RouterIp)
  /\ ev.res = Err("PacketParseError", "ShortBuffer")

----------------------------------------------------------------------------
(* Properties of the housekeeping thread's reaction to announcements *)

\* the step's event e reports a datagram received on the announcement socket
GotDatagram(e) == e.announcement.io = "Ok"

\* ... one that did not come from the router
GotForeign(e) == GotDatagram(e) /\ e.announcement.src # RouterIp

\* C21: a datagram received on the announcement socket whose source is not
\* the router's address is dropped whatever it contains: the step that
\* receives it hands no AutomapChange to the change handler, builds no
\* request, touches no socket of a transaction and leaves the thread as it
\* was, ready to receive the next datagram.
C21_ForeignDatagramDropped ==
  [][GotForeign(ev') =>
       /\ ev'.op = "recv"
       /\ ev'.change = NoChange
       /\ ev'.req = NoRequest
       /\ ev'.ops = <<>>
       /\ threads' = threads
       /\ threads'[ev'.w].pc = "recv"]_vars

\* a well-formed announcement of a new address, sent by someone else, was
\* received by a running thread
C21_Witness ==
  /\ ev.op = "recv" /\ ev.w \in WorkerIds
  /\ ev.announcement \in
       {Datagram(s, TRUE, PmpPacket("Response", "Get", "Success", 0, ip)) :
          s \in SourceIps \ {RouterIp}, ip \in PublicIps}
  /\ threads[ev.w].pc = "recv"

\* ... one from the router
GotFromRouter(e) == GotDatagram(e) /\ e.announcement.src = RouterIp

\* the parse rules reject the datagram r: the codec fails on it, or it is
\* no Response, or its opcode is not Get
Rejected(r) ==
  \/ ~r.parses
  \/ r.pkt.direction # "Response"
  \/ r.pkt.opcode # "Get"

GotAnnouncement(e) == GotFromRouter(e) /\ ~Rejected(e.announcement)

\* how many times the operation op occurs in the sequence ops
RECURSIVE Count(_, _)
Count(ops, op) ==
  IF ops = <<>> THEN 0
  ELSE (IF Head(ops) = op THEN 1 ELSE 0) + Count(Tail(ops), op)

\* thread w's handle_announcement returns in the step to the event e
HandlerReturns(w, e) ==
  /\ threads[w].pc = "announcing"
  /\ e.w = w /\ e.op = "handle_announcement"

\* C23: for every announcement from the router (a Get Response) carrying
\* the address X, the thread builds one MapTcp Request whose internal and
\* external port are both the hole_port of its ChangeHandlerConfig and,
\* whenever the socket factory gives it a socket, sends it once; when the
\* transaction then receives a response with result code Success the
\* change handler gets NewIp(X).  The request is on the wire before the
\* notification: the step that sends it delivers nothing.
C23_AnnouncementRemapsThenNotifies ==
  [][\A w \in WorkerIds :
       /\ (ev'.w = w /\ GotAnnouncement(ev')) =>
             /\ threads[w].pc = "recv"
             /\ ev'.req.opcode = "MapTcp"
             /\ ev'.req.internal_port = threads[w].config.hole_port
             /\ ev'.req.external_port = threads[w].config.hole_port
             /\ ev'.socket.bind_ok => Count(ev'.ops, "send_to") = 1
             /\ ev'.change \notin {NewIp(ip) : ip \in PublicIps}
             /\ (ev'.socket.bind_ok /\ ev'.socket.send_ok) =>
                   /\ ev'.op = "send" /\ ev'.change = NoChange
                   /\ threads'[w].pc = "announcing"
                   /\ threads'[w].public_ip = ev'.announcement.pkt.external_ip
       /\ HandlerReturns(w, ev') =>
             /\ Count(ev'.ops, "send_to") = 0
             /\ ev'.req = NoRequest
             /\ (Parsed(ev') /\ ev'.reply.pkt.result_code_opt = "Success") =>
                   ev'.change = NewIp(threads[w].public_ip)]_vars

\* an announcement was answered with a remap that the router granted, and
\* the change handler was told the announced address
C23_Witness ==
  /\ ev.op = "handle_announcement"
  /\ Parsed(ev) /\ ev.reply.pkt.result_code_opt = "Success"
  /\ ev.reply.pkt.opcode = "MapTcp"
  /\ ev.change \in {NewIp(ip) : ip \in PublicIps}

\* the step to the event e ends an invocation of handle_announcement by
\* thread w: its transaction failed before anything was sent, or returned
HandlerEnds(w, e) ==
  /\ e.w = w /\ e.op = "handle_announcement"
  /\ threads[w].pc \in {"recv", "announcing"}

\* C24: every invocation of handle_announcement hands exactly one
\* AutomapChange to the change handler, when it ends and not before:
\* NewIp(public_ip) if and only if its transaction returned a packet with
\* result code Success; Error(PermanentMappingError) or
\* Error(TemporaryMappingError), as is_permanent() says, for any other
\* result code; Error(ProtocolError) for a packet without result code.  In
\* every case the thread is back in its loop afterwards: it has not
\* panicked, and it has ended only if it then found a Stop in its channel.
C24_HandlerDeliversOneChange ==
  [][\A w \in WorkerIds :
       /\ (ev'.w = w /\ threads'[w].pc = "announcing") => ev'.change = NoChange
       /\ HandlerEnds(w, ev') =>
             LET rc == ev'.reply.pkt.result_code_opt
                 returned == ev'.ops = ReceiveOps /\ Parsed(ev')
             IN /\ ev'.change.tag \in {"NewIp", "Error"}
                /\ ev'.change.tag = "NewIp" <=> (returned /\ rc = "Success")
                /\ ev'.change.tag = "NewIp" =>
                      ev'.change = NewIp(threads[w].public_ip)
                /\ (returned /\ rc = "None") =>
                      ev'.change.err.kind = "ProtocolError"
                /\ (returned /\ rc \notin {"Success", "None"}) =>
                      /\ ev'.change.err.kind =
                           (IF is_permanent(rc) THEN "PermanentMappingError"
                            ELSE "TemporaryMappingError")
                      /\ ev'.change.err.detail =
                           "Remapping after IP change failed; Node is useless: " \o rc
                /\ threads'[w] # Ended("panicked")
                /\ threads'[w].pc \in {"recv", "check"} \/ ev'.polled = "Stop"]_vars

\* a remap after an announcement was refused by the router, the change
\* handler got the error, and the thread is in its loop
C24_Witness ==
  /\ ev.op = "handle_announcement" /\ ev.ops = ReceiveOps
  /\ Parsed(ev) /\ ev.reply.pkt.result_code_opt \notin {"Success", "None"}
  /\ ev.change.tag = "Error"
  /\ ev.w \in WorkerIds /\ threads[ev.w].pc \in {"recv", "check"}

\* the transaction reported by the event e failed: no socket, or nothing
\* sent, or nothing received that the codec parses
TransactFailed(e) ==
  \/ SendPhase(e) /\ ~(e.socket.bind_ok /\ e.socket.send_ok)
  \/ e.ops = ReceiveOps /\ ~Parsed(e)

\* C25: when the transaction inside handle_announcement fails, in whatever
\* way (no socket, send error, timeout, receive error, unparseable
\* response), the change handler gets exactly
\* Error(SocketReceiveError(SocketFailure)), never NewIp and never the
\* error transact returned.
C25_TransactFailureIsSocketFailure ==
  (ev.op = "handle_announcement" /\ TransactFailed(ev)) =>
    /\ ev.res.kind \in {"SocketBindingError", "SocketSendError", "ProtocolError",
                         "SocketReceiveError", "PacketParseError"}
    /\ ev.change = ChangeError(Err("SocketReceiveError", "SocketFailure"))

\* the remap after an announcement timed out, and the change handler was
\* told of a socket failure
C25_Witness ==
  /\ ev.op = "handle_announcement" /\ ev.ops = ReceiveOps
  /\ ev.reply.io = "TimedOut"
  /\ ev.res = Err("ProtocolError", "Timed out after 3 seconds")
  /\ ev.change.tag = "Error"

\* the step's event e reports a request that a housekeeping thread sent:
\* for a periodic renewal or for the remap after an announcement
WorkerRequest(e) == e.w \in WorkerIds /\ e.op = "send"

\* C26: every MapTcp request a housekeeping thread sends, for a periodic
\* renewal and for the remap after an announcement, with every
\* ChangeHandlerConfig the thread can be started with (lifetime 0, as
\* delete_mapping leaves it, included), asks for a lifetime of
\* max(1, lifetime of the ChangeHandlerConfig) seconds, never for 0.
C26_WorkerRequestLifetimeAtLeastOne ==
  WorkerRequest(ev) =>
    /\ ev.req.opcode = "MapTcp"
    /\ ev.req.lifetime =
         (IF threads[ev.w].config.lifetime < 1 THEN 1
          ELSE threads[ev.w].config.lifetime)
    /\ ev.req.lifetime # 0

----------------------------------------------------------------------------
(* Properties of the periodic renewal and of the remap interval *)

\* thread w is inside remap_port, or has just left it
Renewing(w) ==
  \/ threads[w].pc = "renewing"
  \/ ev.w = w /\ ev.op = "remap_port"

\* C27: while a thread is running and no Stop waits for it, whenever more
\* than remap_interval has passed since last_remapped the thread eventually
\* calls remap_port (or has ended, or got a Stop, or the renewal is no more
\* due), whatever arrives on the announcement socket.
C27_DueRenewalHappens ==
  \A w \in WorkerIds :
    (Alive(w) /\ RemapDue(threads[w]) /\ ~HasStop(w))
      ~> (Renewing(w) \/ ~Alive(w) \/ HasStop(w) \/ ~RemapDue(threads[w]))

\* C28: a thread goes for a periodic renewal only when the time passed
\* since last_remapped is strictly greater than its remap_interval at the
\* renewal test: a test with the interval not run out, exactly reached
\* included, leads on to the poll of the channel and never to remap_port.
\* After a renewal that succeeded last_remapped is now, so that the test
\* fails again until more than remap_interval has passed.
C28_RenewalOnlyAfterInterval ==
  [][\A w \in WorkerIds :
       /\ (threads[w].pc \in {"recv", "announcing"} /\ threads'[w].pc = "check") =>
             threads[w].elapsed > threads[w].remap_interval
       /\ (threads[w].pc # "renewing" /\ threads'[w].pc = "renewing") =>
             /\ threads[w].pc = "check"
             /\ threads[w].elapsed > threads[w].remap_interval
       /\ (ev'.w = w /\ ev'.op = "remap_port") =>
             /\ threads[w].pc \in {"check", "renewing"}
             /\ threads[w].elapsed > threads[w].remap_interval
       /\ (ev'.w = w /\ ev'.op = "remap_port" /\ ev'.res.kind = "Ok"
             /\ AliveIn(threads', w)) =>
             /\ threads'[w].elapsed = 0
             /\ threads'[w].pc = "recv"
             /\ ~RemapDue(threads'[w])]_vars

\* a renewal test ran when exactly remap_interval had passed since
\* last_remapped: the thread polled its channel and went back to recv_from
C28_Witness ==
  /\ ev.op = "recv" /\ ev.w \in WorkerIds
  /\ ev.announcement.io = "TimedOut" /\ ev.polled = "Empty"
  /\ threads[ev.w].pc = "recv"
  /\ threads[ev.w].elapsed > 0
  /\ threads[ev.w].elapsed = threads[ev.w].remap_interval

\* the events of a housekeeping thread's steps that can end a loop iteration
LoopEvents == {"recv", "handle_announcement", "remap_port"}

\* thread w is at the top of its loop and nothing has happened since it got
\* there: what is in its channel now was queued before this iteration began
IterationBegins(w) ==
  /\ threads[w].pc = "recv"
  /\ ev.w = w /\ ev.op \in LoopEvents

\* the step to the event e takes thread w, without blocking in a
\* transaction, from the top of its loop through one iteration
IterationRuns(w, e) ==
  /\ threads[w].pc = "recv"
  /\ e.w = w /\ e.op \in LoopEvents
  /\ threads'[w].pc = "recv"

\* C29: a SetRemapIntervalMs(n) that is in the channel when a loop
\* iteration begins has taken effect when that iteration ends:
\* remap_interval is then n milliseconds, whatever recv_from yielded in the
\* iteration and whatever else is queued.
C29_IntervalSetWithinOneIteration ==
  [][\A w \in WorkerIds :
       (IterationBegins(w) /\ IterationRuns(w, ev')) =>
         \A i \in 1..Len(threads[w].rx) :
           threads[w].rx[i].cmd = "SetRemapIntervalMs" =>
             threads'[w].remap_interval = threads[w].rx[i].ms]_vars

\* C30: a thread's remap_interval starts as the lifetime of the
\* ChangeHandlerConfig in seconds, and while the thread runs it changes only
\* in a step of the thread that takes a SetRemapIntervalMs(n) from the head
\* of its channel, to n milliseconds; a renewal, with the interval it
\* returns, the handling of an announcement, a dropped datagram and the
\* passing of time leave it as it is.
C30_IntervalChangedOnlyByCommand ==
  [][\A w \in WorkerIds :
       /\ (~Alive(w) /\ AliveIn(threads', w)) =>
             threads'[w].remap_interval = 1000 * change_handler_config_opt.lifetime
       /\ (Alive(w) /\ AliveIn(threads', w)) =>
             IF ev'.w = w /\ ev'.op \in LoopEvents
                  /\ ev'.polled = "SetRemapIntervalMs"
               THEN /\ Head(threads[w].rx).cmd = "SetRemapIntervalMs"
                    /\ threads'[w].remap_interval = Head(threads[w].rx).ms
                    /\ threads'[w].rx = Tail(threads[w].rx)
               ELSE threads'[w].remap_interval = threads[w].remap_interval]_vars

\* a renewal succeeded in a thread whose remap_interval a command had set,
\* and the interval is not the one the renewal returned
C30_Witness ==
  /\ ev.op = "remap_port" /\ ev.res.kind = "Ok"
  /\ ev.w \in WorkerIds /\ Alive(ev.w)
  /\ threads[ev.w].remap_interval \in IntervalsMs
  /\ threads[ev.w].remap_interval # from_secs(ev.res.val)
  /\ threads[ev.w].remap_interval # from_secs(threads[ev.w].config.lifetime)

----------------------------------------------------------------------------
(* Properties of what the facade and its housekeeping thread share *)

\* C31: a housekeeping thread works with the ChangeHandlerConfig that the
\* facade held when it started the thread: the thread's copy is taken at
\* the start and never changes while the thread runs, whatever add_mapping
\* and delete_mapping store in the facade meanwhile, and every request the
\* thread sends carries the hole_port and the lifetime (raised to 1 second
\* for a renewal) of that copy.
C31_WorkerUsesSnapshot ==
  [][\A w \in WorkerIds :
       /\ (~Alive(w) /\ AliveIn(threads', w)) =>
             threads'[w].config = change_handler_config_opt
       /\ (Alive(w) /\ AliveIn(threads', w)) =>
             threads'[w].config = threads[w].config
       /\ (ev'.w = w /\ WorkerRequest(ev')) =>
             /\ ev'.req.internal_port = threads[w].config.hole_port
             /\ ev'.req.external_port = threads[w].config.hole_port
             /\ ev'.req.lifetime =
                  (IF threads'[w].pc = "renewing" /\ threads[w].config.lifetime < 1
                     THEN 1 ELSE threads[w].config.lifetime)]_vars

\* a thread sent a request for the hole_port it was started with after the
\* facade had stored a ChangeHandlerConfig with another hole_port
C31_Witness ==
  /\ WorkerRequest(ev)
  /\ change_handler_config_opt # NoConfig
  /\ change_handler_config_opt.hole_port # threads[ev.w].config.hole_port
  /\ ev.req.internal_port = threads[ev.w].config.hole_port

\* C32: every loop iteration, whatever its recv_from yields (an
\* announcement, a datagram from another source, a datagram the parse
\* rules reject, a timeout, another error), makes the renewal test and
\* polls the channel before the thread receives again: a thread is back at
\* recv_from only after a test that found no renewal due, or a renewal, and
\* after a try_recv.
C32_EveryIterationChecksAndPolls ==
  [][\A w \in WorkerIds :
       /\ IterationRuns(w, ev') =>
             /\ ~RemapDue(threads[w])
             /\ ev'.polled # "None"
       /\ (ev'.w = w /\ ev'.op \in LoopEvents /\ threads'[w].pc = "recv") =>
             ev'.polled # "None"]_vars

\* the step to the event e is a step of thread w in which try_recv
\* delivered a command
Consumes(w, e) ==
  /\ e.w = w /\ e.op \in LoopEvents
  /\ e.polled \in {"Stop", "SetRemapIntervalMs"}

\* C33: a thread takes commands from its channel one at a time, in the
\* order they were sent, and only at the end of a loop iteration, after
\* the handling of an announcement and the renewal of that iteration.  The
\* command taken is the oldest one; a SetRemapIntervalMs is applied and
\* the commands behind it stay where they are, so that one sent before a
\* Stop is applied before the thread exits; a Stop ends the thread, and
\* what is queued behind it is never applied.  No other step takes
\* anything from the channel.
C33_CommandsOneByOneInOrder ==
  [][\A w \in WorkerIds : Alive(w) =>
       IF Consumes(w, ev')
         THEN /\ threads[w].rx # <<>>
              /\ Head(threads[w].rx).cmd = ev'.polled
              /\ threads[w].pc \in {"recv", "announcing", "renewing"}
              /\ IF ev'.polled = "Stop"
                   THEN threads'[w] = Ended("done")
                   ELSE /\ threads'[w].pc = "recv"
                        /\ threads'[w].rx = Tail(threads[w].rx)
                        /\ threads'[w].remap_interval = Head(threads[w].rx).ms
         ELSE AliveIn(threads', w) =>
                \/ threads'[w].rx = threads[w].rx
                \/ \E c \in Timing.commands \cup Commands :
                     threads'[w].rx = Append(threads[w].rx, c)]_vars

\* a SetRemapIntervalMs sent before a Stop has been applied, and the Stop
\* waits for the next iteration
C33_Witness ==
  /\ ev.w \in WorkerIds /\ ev.op \in LoopEvents
  /\ ev.polled = "SetRemapIntervalMs"
  /\ threads[ev.w].pc = "recv"
  /\ threads[ev.w].rx = <<Stop>>
  /\ threads[ev.w].remap_interval \in IntervalsMs

----------------------------------------------------------------------------
(* Properties of the validation of a MAP response *)

\* C34: add_mapping validates the packet its transaction returned in a
\* fixed order.  A packet labelled Request gives
\* ProtocolError("Map response labeled as request") whatever its opcode; a
\* Response with an opcode X other than MapTcp gives
\* ProtocolError("Expected MapTcp response; got X response instead")
\* whatever its result code; the result code decides (Ok, or a permanent
\* or temporary mapping error) only for a Response with opcode MapTcp.
C34_DirectionThenOpcodeThenCode ==
  (MapReturned(ev) /\ Parsed(ev)) =>
    LET response == ev.reply.pkt
    IN /\ response.direction = "Request" =>
            ev.res = Err("ProtocolError", "Map response labeled as request")
       /\ (response.direction = "Response" /\ response.opcode # "MapTcp") =>
            ev.res = Err("ProtocolError",
                         "Expected MapTcp response; got " \o response.opcode
                           \o " response instead")
       /\ ev.res.kind \in {"Ok", "PermanentMappingError", "TemporaryMappingError"}
            <=> (response.direction = "Response" /\ response.opcode = "MapTcp")

\* add_mapping got a packet labelled Request whose opcode is not MapTcp
\* either, and reported the direction
C34_Witness ==
  /\ ev.op = "add_mapping" /\ MapReturned(ev) /\ Parsed(ev)
  /\ ev.reply.pkt.direction = "Request"
  /\ ev.reply.pkt.opcode = "Get"
  /\ ev.res = Err("ProtocolError", "Map response labeled as request")

\* C35: after an announcement the change handler gets NewIp only when the
\* remap passed the validation of a MAP response: the packet the
\* transaction returned is a Response, its opcode is MapTcp and its result
\* code is Success.
C35_NewIpOnlyAfterValidRemap ==
  (ev.op = "handle_announcement" /\ ev.change.tag = "NewIp") =>
    /\ Parsed(ev)
    /\ ev.reply.pkt.direction = "Response"
    /\ ev.reply.pkt.opcode = "MapTcp"
    /\ ev.reply.pkt.result_code_opt = "Success"

\* the threads with a MapTcp request on the wire and its response not yet
\* received: the caller inside add_mapping or delete_mapping, a
\* housekeeping thread inside remap_port or inside handle_announcement
MapsInFlight ==
  (IF caller.op \in {"add_mapping", "delete_mapping"} THEN {CallerId} ELSE {})
    \cup {w \in WorkerIds : threads[w].pc \in {"renewing", "announcing"}}

\* C36: at any time at most one MapTcp transaction with the router is in
\* flight, be it the caller's add_mapping or delete_mapping, a periodic
\* renewal or the remap after an announcement, and the thread that runs it
\* holds the mapping_adder guard.
C36_OneMapTransactionAtATime ==
  /\ Cardinality(MapsInFlight) <= 1
  /\ \A t \in MapsInFlight : mapping_adder.holder = t

\* whether, after the first i operations of the sequence g, the guard
\* named guard is held
RECURSIVE Held(_, _, _)
Held(g, i, guard) ==
  IF i = 0 THEN FALSE
  ELSE IF g[i] = guard \o ".lock" THEN TRUE
  ELSE IF g[i] = guard \o ".drop" THEN FALSE
  ELSE Held(g, i - 1, guard)

\* C37: the caller and the housekeeping threads cannot deadlock on the two
\* guards.  In every step, mapping_adder is never locked while the factories
\* guard is held (where both are held, mapping_adder was locked first);
\* the factories guard is dropped before anything is sent or received and
\* is never held when a step ends; and who holds the mapping_adder guard
\* between steps is waiting for the response of its transaction, which
\* comes or times out, and not for a guard (a lock() that finds the mutex
\* poisoned panics and holds nothing).
C37_GuardsTakenInOrder ==
  /\ \A i \in 1..Len(ev.guards) :
       /\ ev.guards[i] = "mapping_adder.lock" => ~Held(ev.guards, i - 1, "factories")
       /\ ev.guards[i] = "factories.lock" => ~Held(ev.guards, i - 1, "factories")
       /\ ev.guards[i] \in {"send_to", "recv_from"} =>
            ~Held(ev.guards, i - 1, "factories")
  /\ ~Held(ev.guards, Len(ev.guards), "factories")
  /\ Held(ev.guards, Len(ev.guards), "mapping_adder") <=>
       (ev.op = "send" /\ mapping_adder.holder = (IF ev.w = 0 THEN CallerId ELSE ev.w))
        \/ ev.res \in {Err("panic", "Housekeeping thread is dead"),
                       Err("panic", "PcpTransactor is dead")}
  /\ mapping_adder.holder = CallerId =>
       /\ caller.op \in {"add_mapping", "delete_mapping"}
       /\ ENABLED MappingCallReturns(Housekeeping)
  /\ \A w \in WorkerIds : mapping_adder.holder = w =>
       /\ threads[w].pc = "renewing"
       /\ ENABLED RemapPortReturns(w, Housekeeping)

\* a housekeeping thread waits for the mapping_adder guard that the caller
\* holds while its add_mapping waits for the router
C37_Witness ==
  /\ mapping_adder.holder = CallerId
  /\ caller.op = "add_mapping"
  /\ \E w \in WorkerIds : threads[w].pc = "check"
  /\ ev.op = "send" /\ ev.w = 0
  /\ ev.guards = <<"mapping_adder.lock", "factories.lock", "make",
                   "factories.drop", "set_read_timeout", "send_to">>

\* C38: a failure inside a housekeeping thread leaves the facade usable:
\* after a periodic renewal has failed in a thread, add_mapping,
\* delete_mapping and get_public_ip still get the guards they need and
\* return Ok or an AutomapError; the caller is not aborted.
C38_FacadeSurvivesWorkerFailure ==
  (\E w \in WorkerIds : threads[w] = Ended("panicked")) =>
    /\ facade # "panicked"
    /\ ev.op \in {"add_mapping", "delete_mapping", "get_public_ip"} =>
         ev.res.kind # "panic"

----------------------------------------------------------------------------
(* Properties of the bytes the housekeeping thread parses *)

\* the step's event e reports a datagram from the router that is shorter
\* than a complete Get response
GotShort(e) ==
  GotFromRouter(e)
  /\ e.announcement.len
       < Length(PmpPacket("Response", "Get", "Success", 0, "None"))

\* C39: the housekeeping thread parses the bytes of the datagram it
\* received and no more: a datagram from the router that is shorter than a
\* complete Get response is not filled up with what the buffer holds beyond
\* it and taken for an announcement.  The step that receives it starts no
\* remap: it builds no request, touches no socket of a transaction, hands
\* no AutomapChange to the change handler, and the thread keeps no public
\* address from it.
C39_ShortDatagramIsNoAnnouncement ==
  GotShort(ev) =>
    /\ ev.op = "recv"
    /\ ev.req = NoRequest
    /\ ev.ops = <<>>
    /\ ev.change = NoChange
    /\ threads[ev.w].pc # "announcing"

----------------------------------------------------------------------------
(* Properties of what the facade knows of its housekeeping thread *)

\* The thread whose Sender the facade holds has returned from thread_guts.
\* The facade gives its Sender up when it sends Stop itself, so the Stop that
\* ended this thread came through the Sender handed to the client.
StoppedByClient ==
  /\ housekeeper_commander_opt # 0
  /\ threads[housekeeper_commander_opt] = Ended("done")

\* C40: the facade takes a housekeeping thread to be running from its own
\* start to its own stop, whatever became of the thread.  While the thread
\* that was stopped through the client's Sender is the one whose Sender the
\* facade holds, the facade keeps that Sender through every step but its own
\* stop_housekeeping_thread, which gives it up, and every
\* start_housekeeping_thread returns ChangeHandlerAlreadyRunning and spawns
\* nothing; a thread is spawned only when the facade holds no Sender.
C40_FacadeTracksOwnStartAndStop ==
  [][/\ StoppedByClient =>
          /\ ev'.op = "start_housekeeping_thread" =>
                /\ ev'.res = Err("ChangeHandlerAlreadyRunning", "")
                /\ spawned' = spawned
                /\ threads' = threads
          /\ ev'.op # "stop_housekeeping_thread" =>
                housekeeper_commander_opt' = housekeeper_commander_opt
          /\ ev'.op = "stop_housekeeping_thread" =>
                housekeeper_commander_opt' = 0
     /\ spawned' # spawned =>
          /\ housekeeper_commander_opt = 0
          /\ ev'.op = "start_housekeeping_thread"
          /\ ev'.res.kind = "Ok"]_vars

\* a start was refused although the only thread of the facade had already
\* returned, stopped by the client
C40_Witness ==
  /\ StoppedByClient
  /\ AliveWorkers = {}
  /\ ev.op = "start_housekeeping_thread"
  /\ ev.res = Err("ChangeHandlerAlreadyRunning", "")

====
